---------------------------- MODULE Spec2Model ----------------------------
(***************************************************************************)
(* A model of the GoEpubReader library (package epub).                     *)
(*                                                                         *)
(* Go strings are modelled as sequences of one-character strings, so that  *)
(* strings.ToLower, strings.TrimSpace, path.Clean and friends are computed *)
(* character by character rather than assumed.  A Go pointer is modelled   *)
(* as a sequence of length 0 (nil) or 1 (the pointee).  A Go map is a      *)
(* function; where the code ranges over a map, the iteration order is a    *)
(* nondeterministic choice made by the action that runs the code.          *)
(***************************************************************************)
EXTENDS Integers, Sequences, FiniteSets, TLC

VARIABLES
    archive,  \* the EPUB archive ReadBook reads: whether it opens, its entries
    pc,       \* where ReadBook stands
    locals,   \* ReadBook's local variables
    book,     \* the *Book under construction / handed to the caller
    ret,      \* the last call made and what it returned
    streams   \* the byte streams that are open

vars == <<archive, pc, locals, book, ret, streams>>

-----------------------------------------------------------------------------
(* Bounds of the model *)

\* most TOC entries below the synthetic root
MaxTocNodes == 3

\* most child elements of the <metadata> element
MaxMeta == 2

-----------------------------------------------------------------------------
(* Generic helpers *)

None == << >>
Some(x) == <<x>>

Min(S) == CHOOSE x \in S : \A y \in S : x <= y
Max(S) == CHOOSE x \in S : \A y \in S : y <= x

Range(s) == {s[i] : i \in 1..Len(s)}

RECURSIVE Flat(_)
\* concatenation of a sequence of sequences
Flat(ss) ==
    IF ss = << >> THEN << >> ELSE Head(ss) \o Flat(Tail(ss))

\* all sequences over S of length at most n
SeqsUpTo(S, n) == UNION {[1..k -> S] : k \in 0..n}

\* all orders in which the elements of the finite set S can be enumerated
Perms(S) ==
    {p \in [1..Cardinality(S) -> S] : \A i, j \in 1..Cardinality(S) : p[i] = p[j] => i = j}

-----------------------------------------------------------------------------
(* Package strings *)

UpperCase == <<"A","B","C","D","E","F","G","H","I","J","K","L","M",
               "N","O","P","Q","R","S","T","U","V","W","X","Y","Z">>
LowerCase == <<"a","b","c","d","e","f","g","h","i","j","k","l","m",
               "n","o","p","q","r","s","t","u","v","w","x","y","z">>

\* the characters of the model in ASCII order (byte order of Go's string <)
Ascii == <<"\t", "\n", " ", "+", "-", ".", "/", ":">> \o UpperCase \o LowerCase

\* the rank of each character in that order
Code == [c \in Range(Ascii) |-> CHOOSE i \in 1..Len(Ascii) : Ascii[i] = c]

IsSpace(c) == c \in {" ", "\t", "\n", "\r"}

\* the lower-case letter of each upper-case letter
Lower == [c \in Range(UpperCase) |-> LowerCase[CHOOSE i \in 1..Len(UpperCase) : UpperCase[i] = c]]

ToLowerChar(c) == IF c \in DOMAIN Lower THEN Lower[c] ELSE c

ToLower(s) == [i \in 1..Len(s) |-> ToLowerChar(s[i])]

EqualFold(s, t) == ToLower(s) = ToLower(t)

TrimSpace(s) ==
    LET keep == {i \in 1..Len(s) : ~IsSpace(s[i])}
    IN  IF keep = {} THEN << >>
        ELSE SubSeq(s, Min(keep), CHOOSE i \in keep : \A j \in keep : j <= i)

HasPrefix(s, p) == Len(p) <= Len(s) /\ SubSeq(s, 1, Len(p)) = p

TrimPrefix(s, p) == IF HasPrefix(s, p) THEN SubSeq(s, Len(p) + 1, Len(s)) ELSE s

\* Go's < on strings: bytewise lexicographic
StrLess(s, t) ==
    LET n == IF Len(s) < Len(t) THEN Len(s) ELSE Len(t)
        d == Min({i \in 1..n : s[i] # t[i]} \cup {n + 1})
    IN  IF d > n THEN Len(s) < Len(t) ELSE Code[s[d]] < Code[t[d]]

\* strings.Contains
Contains(s, sub) ==
    \E i \in 0..(Len(s) - Len(sub)) : SubSeq(s, i + 1, i + Len(sub)) = sub

RECURSIVE Fields(_)
\* strings.Fields: the maximal runs of characters that are not white space
Fields(s) ==
    LET starts == {i \in 1..Len(s) : ~IsSpace(s[i])}
    IN  IF starts = {} THEN << >>
        ELSE LET b == Min(starts)
                 stops == {i \in b..Len(s) : IsSpace(s[i])}
                 e == IF stops = {} THEN Len(s) ELSE Min(stops) - 1
             IN  <<SubSeq(s, b, e)>> \o Fields(SubSeq(s, e + 1, Len(s)))

RECURSIVE SplitOn(_, _)
\* the pieces of s between occurrences of the character c (strings.Split)
SplitOn(s, c) ==
    LET at == {i \in 1..Len(s) : s[i] = c}
    IN  IF at = {} THEN <<s>>
        ELSE <<SubSeq(s, 1, Min(at) - 1)>> \o SplitOn(SubSeq(s, Min(at) + 1, Len(s)), c)

RECURSIVE JoinWith(_, _)
\* strings.Join
JoinWith(parts, sep) ==
    IF parts = << >> THEN << >>
    ELSE IF Len(parts) = 1 THEN parts[1]
    ELSE parts[1] \o sep \o JoinWith(Tail(parts), sep)

-----------------------------------------------------------------------------
(* Package path *)

RECURSIVE CleanSegments(_, _, _)
\* the element stack path.Clean is left with after reading the elements segs
CleanSegments(segs, stack, rooted) ==
    IF segs = << >> THEN stack
    ELSE LET e == Head(segs)
             next ==
                 IF e = << >> \/ e = <<".">> THEN stack
                 ELSE IF e = <<".", ".">>
                      THEN IF stack # << >> /\ stack[Len(stack)] # <<".", ".">>
                           THEN SubSeq(stack, 1, Len(stack) - 1)
                           ELSE IF rooted THEN stack ELSE Append(stack, e)
                      ELSE Append(stack, e)
         IN  CleanSegments(Tail(segs), next, rooted)

\* path.Clean
Clean(p) ==
    LET rooted == p # << >> /\ p[1] = "/"
        body == JoinWith(CleanSegments(SplitOn(p, "/"), << >>, rooted), <<"/">>)
    IN  IF rooted THEN <<"/">> \o body
        ELSE IF body = << >> THEN <<".">> ELSE body

\* path.Dir
Dir(p) ==
    LET at == {i \in 1..Len(p) : p[i] = "/"}
    IN  IF at = {} THEN Clean(<< >>)
        ELSE Clean(SubSeq(p, 1, CHOOSE i \in at : \A j \in at : j <= i))

\* path.Join of two elements
Join(a, b) ==
    IF a = << >> /\ b = << >> THEN << >>
    ELSE IF a = << >> THEN Clean(b)
    ELSE Clean(a \o <<"/">> \o b)

-----------------------------------------------------------------------------
(* String constants of the source, spelled out character by character *)

\* "title"
str_title == <<"t","i","t","l","e">>
\* "creator"
str_creator == <<"c","r","e","a","t","o","r">>
\* "subject"
str_subject == <<"s","u","b","j","e","c","t">>
\* "description"
str_description == <<"d","e","s","c","r","i","p","t","i","o","n">>
\* "publisher"
str_publisher == <<"p","u","b","l","i","s","h","e","r">>
\* "contributor"
str_contributor == <<"c","o","n","t","r","i","b","u","t","o","r">>
\* "date"
str_date == <<"d","a","t","e">>
\* "type"
str_type == <<"t","y","p","e">>
\* "format"
str_format == <<"f","o","r","m","a","t">>
\* "identifier"
str_identifier == <<"i","d","e","n","t","i","f","i","e","r">>
\* "language"
str_language == <<"l","a","n","g","u","a","g","e">>
\* "source"
str_source == <<"s","o","u","r","c","e">>
\* "relation"
str_relation == <<"r","e","l","a","t","i","o","n">>
\* "coverage"
str_coverage == <<"c","o","v","e","r","a","g","e">>
\* "rights"
str_rights == <<"r","i","g","h","t","s">>
\* "Title"
str_Title == <<"T","i","t","l","e">>
\* "meta"
str_meta == <<"m","e","t","a">>
\* "meta:"
str_metaColon == <<"m","e","t","a",":">>
\* "name"
str_name == <<"n","a","m","e">>
\* "property"
str_property == <<"p","r","o","p","e","r","t","y">>
\* "content"
str_content == <<"c","o","n","t","e","n","t">>
\* "metadata"
str_metadata == <<"m","e","t","a","d","a","t","a">>
\* "manifest"
str_manifest == <<"m","a","n","i","f","e","s","t">>
\* "spine"
str_spine == <<"s","p","i","n","e">>
\* "item"
str_item == <<"i","t","e","m">>
\* "itemref"
str_itemref == <<"i","t","e","m","r","e","f">>
\* "package"
str_package == <<"p","a","c","k","a","g","e">>
\* "id"
str_id == <<"i","d">>
\* "href"
str_href == <<"h","r","e","f">>
\* "idref"
str_idref == <<"i","d","r","e","f">>
\* "linear"
str_linear == <<"l","i","n","e","a","r">>
\* "no"
str_no == <<"n","o">>
\* "toc"
str_toc == <<"t","o","c">>
\* "properties"
str_properties == <<"p","r","o","p","e","r","t","i","e","s">>
\* "nav"
str_nav == <<"n","a","v">>
\* "media-type"
str_mediaType == <<"m","e","d","i","a","-","t","y","p","e">>
\* "full-path"
str_fullPath == <<"f","u","l","l","-","p","a","t","h">>
\* "rootfiles"
str_rootfiles == <<"r","o","o","t","f","i","l","e","s">>
\* "rootfile"
str_rootfile == <<"r","o","o","t","f","i","l","e">>
\* "container"
str_container == <<"c","o","n","t","a","i","n","e","r">>
\* "application/x-dtbncx+xml"
str_ncxMediaType ==
    <<"a","p","p","l","i","c","a","t","i","o","n","/","x","-","d","t","b",
      "n","c","x","+","x","m","l">>
\* "application/oebps-package+xml"
str_opfMediaType ==
    <<"a","p","p","l","i","c","a","t","i","o","n","/","o","e","b","p","s",
      "-","p","a","c","k","a","g","e","+","x","m","l">>
\* "application/epub+zip"
str_epubMediaType ==
    <<"a","p","p","l","i","c","a","t","i","o","n","/","e","p","u","b","+",
      "z","i","p">>
\* "META-INF/container.xml"
str_containerPath ==
    <<"M","E","T","A","-","I","N","F","/","c","o","n","t","a","i","n","e",
      "r",".","x","m","l">>
\* "utf-8"
str_utf8 == <<"u","t","f","-","8">>
\* "us-ascii"
str_usascii == <<"u","s","-","a","s","c","i","i">>
\* "navMap"
str_navMap == <<"n","a","v","M","a","p">>
\* "navPoint"
str_navPoint == <<"n","a","v","P","o","i","n","t">>
\* "navLabel"
str_navLabel == <<"n","a","v","L","a","b","e","l">>
\* "src"
str_src == <<"s","r","c">>
\* "ol"
str_ol == <<"o","l">>
\* "li"
str_li == <<"l","i">>
\* "a"
str_a == <<"a">>
\* "text"
str_text == <<"t","e","x","t">>
\* "ncx"
str_ncx == <<"n","c","x">>
\* "html"
str_html == <<"h","t","m","l">>
\* "body"
str_body == <<"b","o","d","y">>
\* "head"
str_head == <<"h","e","a","d">>
\* "p"
str_p == <<"p">>
\* "div"
str_div == <<"d","i","v">>
\* "img"
str_img == <<"i","m","g">>
\* "epub:type"
str_epubType == <<"e","p","u","b",":","t","y","p","e">>
\* "c.opf"
p_opfName == <<"c",".","o","p","f">>
\* "a.x"
p_aName == <<"a",".","x">>
\* "b.x"
p_bName == <<"b",".","x">>
\* "t.ncx"
p_ncxName == <<"t",".","n","c","x">>
\* "n.x"
p_navName == <<"n",".","x">>
\* "latin"
str_latin == <<"l","a","t","i","n">>
\* "text/plain"
str_textPlain == <<"t","e","x","t","/","p","l","a","i","n">>
\* "dc"
ns_dc == <<"d","c">>
\* "opf"
ns_opf == <<"o","p","f">>

-----------------------------------------------------------------------------
(* Errors *)

NoErr == [kind |-> "nil", detail |-> << >>]
Err(kind, detail) == [kind |-> kind, detail |-> detail]

\* the record of one call on the book
Call(op, arg, val, err) == [op |-> op, arg |-> arg, val |-> val, err |-> err]
NoCall == Call("none", << >>, << >>, NoErr)

-----------------------------------------------------------------------------
(* toc.go: type TOC and its methods *)

TocEntry(title, href, children) ==
    [Title |-> title, Href |-> href, Children |-> children]

\* ReadBook's synthetic root: &TOC{Children: entries}
TocRoot(entries) == TocEntry(<< >>, << >>, entries)

RECURSIVE WalkPostOrder(_)
\* mutant of Walk: the callback runs after the children have been walked
WalkPostOrder(t) ==
    Flat([i \in 1..Len(t.Children) |-> WalkPostOrder(t.Children[i])]) \o <<t>>

RECURSIVE Walk(_)
\* TOC.Walk with a callback that never fails: the entries in the order in
\* which the callback sees them
Walk(t) ==
    <<t>> \o Flat([i \in 1..Len(t.Children) |-> Walk(t.Children[i])])

\* TOC.Flatten
Flatten(t) == Walk(t)

\* mutant of FindByHref: the stored href is compared as written
FindByHrefRaw(t, href) ==
    LET order == Walk(t)
        hits == {i \in 1..Len(order) : order[i].Href # << >> /\ order[i].Href = Clean(href)}
    IN  IF hits = {} THEN None ELSE Some(order[Min(hits)])

\* TOC.FindByHref: the callback keeps the first entry that matches
FindByHref(t, href) ==
    LET cleaned == Clean(href)
        order == Walk(t)
        hits == {i \in 1..Len(order) :
                    order[i].Href # << >> /\ Clean(order[i].Href) = cleaned}
    IN  IF hits = {} THEN None ELSE Some(order[Min(hits)])

\* Book.FlattenTOC
FlattenTOC(b) ==
    IF b.TOC = None THEN << >>
    ELSE LET entries == Flatten(b.TOC[1])
         IN  IF Len(entries) = 0 THEN << >> ELSE Tail(entries)

\* NewBook, with the fields ReadBook fills in
Book(container, opf, toc, chapters) ==
    [Container |-> container, Opf |-> opf, TOC |-> toc, Chapters |-> chapters]

-----------------------------------------------------------------------------
(* xml.go: the XML tree *)

\* the elements of the set S of integers, ascending
Ascending(S) ==
    [i \in 1..Cardinality(S) |-> CHOOSE x \in S : Cardinality({y \in S : y < x}) = i - 1]

\* type XmlNode; Attrs is a sequence of xml.Attr, of which the code reads
\* Name.Local and Value
XmlNode(space, local, attrs, content, nodes) ==
    [Space |-> space, Local |-> local, Attrs |-> attrs, Content |-> content,
     XmlNodes |-> nodes]

Attr(local, value) == [Local |-> local, Value |-> value]

\* attrs[attr.Name.Local] = attr.Value over a list of attributes: a later
\* attribute of the same local name overwrites an earlier one
AttrMap(attrs) ==
    [n \in {attrs[i].Local : i \in 1..Len(attrs)} |->
        attrs[CHOOSE i \in 1..Len(attrs) :
                 /\ attrs[i].Local = n
                 /\ \A j \in 1..Len(attrs) : attrs[j].Local = n => j <= i].Value]

\* m[k] on a map[string]string: the empty string when k is no key
MapGet(m, k) == IF k \in DOMAIN m THEN m[k] ELSE << >>

\* type EmptyXmlNode
EmptyXmlNode(name, attrs) == [Name |-> name, Attrs |-> attrs]

RECURSIVE XmlNodeText(_)
\* XmlNode.NodeText
XmlNodeText(xn) ==
    LET own == IF TrimSpace(xn.Content) # << >> THEN <<TrimSpace(xn.Content)>> ELSE << >>
        sub == [i \in 1..Len(xn.XmlNodes) |-> XmlNodeText(xn.XmlNodes[i])]
        kept == [i \in 1..Cardinality({j \in 1..Len(sub) : sub[j] # << >>}) |->
                    sub[Ascending({j \in 1..Len(sub) : sub[j] # << >>})[i]]]
    IN  JoinWith(own \o kept, <<" ">>)

RECURSIVE FindNode(_, _)
\* XmlNode.FindNode: the first element, depth-first, whose local name equals
\* name up to letter case; None when there is none
FindNode(xn, name) ==
    IF EqualFold(xn.Local, name) THEN Some(xn)
    ELSE LET sub == [i \in 1..Len(xn.XmlNodes) |-> FindNode(xn.XmlNodes[i], name)]
             hit == {i \in 1..Len(sub) : sub[i] # None}
         IN  IF hit = {} THEN None ELSE sub[Min(hit)]

\* The bytes of an XML document: the charset its declaration names (empty
\* when it names none), whether the bytes parse, and the tree they parse to.
XmlBytes(charset, wellFormed, root) ==
    [charset |-> charset, wellFormed |-> wellFormed, root |-> root]

\* charsetReader
CharsetReader(charset) ==
    ToLower(charset) \in {<< >>, str_utf8, str_usascii}

\* xml.Decoder.Decode: a declared encoding other than UTF-8 is handed to the
\* decoder's CharsetReader, and refused when the decoder has none
Decode(bytes, hasCharsetReader) ==
    IF /\ bytes.charset # << >>
       /\ ~EqualFold(bytes.charset, str_utf8)
       /\ ~(hasCharsetReader /\ CharsetReader(bytes.charset))
    THEN [err |-> Err("unsupported charset", bytes.charset), root |-> None]
    ELSE IF ~bytes.wellFormed
         THEN [err |-> Err("xml syntax error", << >>), root |-> None]
         ELSE [err |-> NoErr, root |-> Some(bytes.root)]

\* ParseXML: a decoder without CharsetReader
ParseXML(bytes) == Decode(bytes, FALSE)

-----------------------------------------------------------------------------
(* reader.go: the package document *)

\* var dublinCoreElements, as declared
dublinCoreDeclared ==
    << str_title, str_creator, str_subject, str_description, str_publisher,
       str_contributor, str_date, str_type, str_format, str_identifier,
       str_language, str_source, str_relation, str_coverage, str_rights >>

\* sort.Strings
SortStrings(a) ==
    [i \in 1..Len(a) |->
        CHOOSE s \in Range(a) : Cardinality({t \in Range(a) : StrLess(t, s)}) = i - 1]

\* var dublinCoreElements after init() has sorted it
dublinCoreElements == SortStrings(dublinCoreDeclared)

RECURSIVE Search(_, _, _, _)
\* sort.Search's loop over the half-open index range i..j-1 (0-based)
Search(a, x, i, j) ==
    IF i < j
    THEN LET h == (i + j) \div 2
         IN  IF StrLess(a[h + 1], x) THEN Search(a, x, h + 1, j) ELSE Search(a, x, i, h)
    ELSE i

\* sort.SearchStrings: binary search for the first index (0-based) whose
\* element is not below x
SearchStrings(a, x) == Search(a, x, 0, Len(a))

\* in
In(sortedValues, target) ==
    LET index == SearchStrings(sortedValues, target)
    IN  index < Len(sortedValues) /\ sortedValues[index + 1] = target

\* type Opf
Opf(xmlNode, metadata, manifest, spine) ==
    [XmlNode |-> xmlNode, Metadata |-> metadata, Manifest |-> manifest, Spine |-> spine]

\* the namespace ParseMetadata files a child of <metadata> under
MetaNamespace(child, defaultNS) ==
    IF child.Space = << >> THEN defaultNS ELSE child.Space

\* type MetaEntry, as ParseMetadata builds it
MetaEntry(child) ==
    [Value |-> TrimSpace(XmlNodeText(child)), Attrs |-> AttrMap(child.Attrs)]

\* Opf.ParseMetadata: the error and the Opf it leaves
ParseMetadata(opf) ==
    LET found == FindNode(opf.XmlNode, str_metadata)
        mdNode == found[1]
        kids == mdNode.XmlNodes
        defaultNS == mdNode.Space
        at(ns, tag) == {i \in 1..Len(kids) :
                           MetaNamespace(kids[i], defaultNS) = ns /\ kids[i].Local = tag}
        data == [ns \in {MetaNamespace(kids[i], defaultNS) : i \in 1..Len(kids)} |->
                   [tag \in {kids[i].Local : i \in {j \in 1..Len(kids) :
                                        MetaNamespace(kids[j], defaultNS) = ns}} |->
                       [k \in 1..Cardinality(at(ns, tag)) |->
                           MetaEntry(kids[Ascending(at(ns, tag))[k]])]]]
    IN  IF found = None
        THEN [err |-> Err("metadata not found", << >>), opf |-> opf]
        ELSE [err |-> NoErr, opf |-> [opf EXCEPT !.Metadata = Some([Data |-> data])]]

\* the children of node named name, as EmptyXmlNode values
ChildItems(node, name) ==
    LET at == {i \in 1..Len(node.XmlNodes) : node.XmlNodes[i].Local = name}
    IN  [k \in 1..Cardinality(at) |->
            EmptyXmlNode(name, AttrMap(node.XmlNodes[Ascending(at)[k]].Attrs))]

\* mutant of ParseManifest: the manifest is derived only once the metadata
\* has been
ParseManifestAfterMetadata(opf) ==
    LET found == FindNode(opf.XmlNode, str_manifest)
    IN  IF found = None \/ opf.Metadata = None
        THEN [err |-> Err("manifest not found", << >>), opf |-> opf]
        ELSE [err |-> NoErr,
              opf |-> [opf EXCEPT !.Manifest =
                          Some([Items |-> ChildItems(found[1], str_item)])]]

\* Opf.ParseManifest
ParseManifest(opf) ==
    LET found == FindNode(opf.XmlNode, str_manifest)
    IN  IF found = None
        THEN [err |-> Err("manifest not found", << >>), opf |-> opf]
        ELSE [err |-> NoErr,
              opf |-> [opf EXCEPT !.Manifest =
                          Some([Items |-> ChildItems(found[1], str_item)])]]

\* Opf.ParseSpine
ParseSpine(opf) ==
    LET found == FindNode(opf.XmlNode, str_spine)
    IN  IF found = None
        THEN [err |-> Err("spine not found", << >>), opf |-> opf]
        ELSE [err |-> NoErr,
              opf |-> [opf EXCEPT !.Spine =
                          Some([Itemrefs |-> ChildItems(found[1], str_itemref),
                                Attrs |-> AttrMap(found[1].Attrs)])]]

\* ParseOpf: decode with the charset reader, then the three sections in turn
ParseOpf(bytes) ==
    LET dec == Decode(bytes, TRUE)
        o0 == Opf(dec.root[1], None, None, None)
        r1 == ParseMetadata(o0)
        r2 == ParseManifest(r1.opf)
        r3 == ParseSpine(r2.opf)
    IN  IF dec.err # NoErr THEN [err |-> Err("parse opf", dec.err.kind), opf |-> None]
        ELSE IF r1.err # NoErr THEN [err |-> r1.err, opf |-> None]
        ELSE IF r2.err # NoErr THEN [err |-> r2.err, opf |-> None]
        ELSE IF r3.err # NoErr THEN [err |-> r3.err, opf |-> None]
        ELSE [err |-> NoErr, opf |-> Some(r3.opf)]

-----------------------------------------------------------------------------
(* reader.go, book.go: the metadata views *)

\* The orders in which `for _, ns := range md.Data` and, inside it,
\* `for tag, entries := range ns` can visit the (namespace, tag) pairs of
\* the map: Go leaves the iteration order of a map unspecified.
MapOrders(data) ==
    LET tagOrders ==
            {f \in [DOMAIN data -> UNION {Perms(DOMAIN data[ns]) : ns \in DOMAIN data}] :
                \A ns \in DOMAIN data : f[ns] \in Perms(DOMAIN data[ns])}
    IN  { Flat([i \in 1..Len(nsOrder) |->
                  [j \in 1..Len(tagOrder[nsOrder[i]]) |->
                      <<nsOrder[i], tagOrder[nsOrder[i]][j]>>]]) :
            nsOrder \in Perms(DOMAIN data), tagOrder \in tagOrders }

\* a map[string][]string built by appending the pairs [key, val] in turn
GroupByKey(pairs) ==
    [k \in {pairs[i].key : i \in 1..Len(pairs)} |->
        [j \in 1..Cardinality({i \in 1..Len(pairs) : pairs[i].key = k}) |->
            pairs[Ascending({i \in 1..Len(pairs) : pairs[i].key = k})[j]].val]]

\* the key GetAll files an entry of tag `tag` under
GetAllKey(tag, e) ==
    IF tag = str_meta
    THEN IF MapGet(e.Attrs, str_name) # << >>
         THEN str_metaColon \o MapGet(e.Attrs, str_name)
         ELSE IF MapGet(e.Attrs, str_property) # << >>
              THEN str_metaColon \o MapGet(e.Attrs, str_property)
              ELSE tag
    ELSE tag

\* the value GetAll shows for an entry: its text, else its content attribute
GetAllValue(e) ==
    IF e.Value = << >> THEN MapGet(e.Attrs, str_content) ELSE e.Value

\* mutant of GetAllEntry: an entry without a value is not skipped
GetAllEntryKeepEmpty(tag, e) ==
    <<[key |-> GetAllKey(tag, e), val |-> GetAllValue(e)]>>

\* what one entry adds to GetAll's map: nothing, or one value under one key
GetAllEntry(tag, e) ==
    IF GetAllValue(e) = << >> THEN << >>
    ELSE <<[key |-> GetAllKey(tag, e), val |-> GetAllValue(e)]>>

\* Metadata.GetAll, the map being visited in the order `order`
GetAll(md, order) ==
    IF md = None THEN << >>
    ELSE GroupByKey(Flat([i \in 1..Len(order) |->
            LET tag == order[i][2]
                entries == md[1].Data[order[i][1]][tag]
            IN  Flat([j \in 1..Len(entries) |-> GetAllEntry(tag, entries[j])])]))

\* Metadata.Normalize, the map being visited in the order `order`
Normalize(md, order) ==
    IF md = None THEN << >>
    ELSE GroupByKey(Flat([i \in 1..Len(order) |->
            LET tag == order[i][2]
                entries == md[1].Data[order[i][1]][tag]
            IN  IF In(dublinCoreElements, tag)
                THEN Flat([j \in 1..Len(entries) |->
                        IF TrimSpace(entries[j].Value) # << >>
                        THEN <<[key |-> tag, val |-> TrimSpace(entries[j].Value)]>>
                        ELSE << >>])
                ELSE << >>]))

\* Metadata.Get
Get(md, key, order) ==
    IF md = None THEN << >>
    ELSE IF ~In(dublinCoreElements, ToLower(key)) THEN << >>
    ELSE MapGet(Normalize(md, order), ToLower(key))

\* the *Metadata of a book, nil when the book has none
BookMetadata(b) == IF b.Opf = None THEN None ELSE b.Opf[1].Metadata

\* the orders in which the metadata map of book b can be visited
BookMapOrders(b) ==
    IF BookMetadata(b) = None THEN {<< >>} ELSE MapOrders(BookMetadata(b)[1].Data)

\* mutant of MetadataValues: the length of the list is not looked at
MetadataValuesUnchecked(b, key, order) ==
    LET k == ToLower(TrimSpace(key))
    IN  IF k = << >> THEN [val |-> << >>, err |-> Err("metadata key is empty", << >>)]
        ELSE [val |-> Get(BookMetadata(b), k, order), err |-> NoErr]

\* Book.MetadataValues
MetadataValues(b, key, order) ==
    LET k == ToLower(TrimSpace(key))
        values == Get(BookMetadata(b), k, order)
    IN  IF k = << >> THEN [val |-> << >>, err |-> Err("metadata key is empty", << >>)]
        ELSE IF BookMetadata(b) = None
             THEN [val |-> << >>, err |-> Err("ErrMetadataUndefined", k)]
        ELSE IF Len(values) = 0
             THEN [val |-> << >>, err |-> Err("ErrMetadataUndefined", k)]
        ELSE [val |-> values, err |-> NoErr]

\* Book.MetadataValue
MetadataValue(b, key, order) ==
    LET r == MetadataValues(b, key, order)
    IN  IF r.err # NoErr THEN [val |-> << >>, err |-> r.err]
        ELSE [val |-> r.val[1], err |-> NoErr]

\* Book.MetadataByKey
MetadataByKey(b, key, order) == MetadataValues(b, key, order)

\* Book.Title, Book.Creator, ..., Book.Rights: metadataGetter(key)()
DublinCoreHelper(b, key, order) == MetadataValue(b, key, order)

\* Book.AllMetadata
AllMetadata(b, order) ==
    IF BookMetadata(b) = None THEN << >>
    ELSE LET result == GetAll(BookMetadata(b), order)
         IN  [k \in DOMAIN result |-> result[k]]

-----------------------------------------------------------------------------
(* book.go, chapter.go: the chapter accessors.  The receiver bp is a *Book: *)
(* None for nil, Some(b) otherwise.  A *Chapter returned is the position   *)
(* in b.Chapters it points to (the first chapter is at 1).                 *)

\* the separator of Chapter.Text and AllChaptersText
str_blankLine == <<"\n", "\n">>

\* Book.ChapterCount
ChapterCount(bp) == IF bp = None THEN 0 ELSE Len(bp[1].Chapters)

\* mutant of ChapterByID: the last chapter of that ID is returned
ChapterByIDLast(bp, id) ==
    IF bp = None THEN [val |-> None, err |-> Err("ErrChapterNotFound", << >>)]
    ELSE LET hits == {i \in 1..Len(bp[1].Chapters) : bp[1].Chapters[i].ID = id}
         IN  IF hits = {} THEN [val |-> None, err |-> Err("ErrChapterNotFound", id)]
             ELSE [val |-> Some(Max(hits)), err |-> NoErr]

\* Book.ChapterByID
ChapterByID(bp, id) ==
    IF bp = None THEN [val |-> None, err |-> Err("ErrChapterNotFound", << >>)]
    ELSE LET hits == {i \in 1..Len(bp[1].Chapters) : bp[1].Chapters[i].ID = id}
         IN  IF hits = {} THEN [val |-> None, err |-> Err("ErrChapterNotFound", id)]
             ELSE [val |-> Some(Min(hits)), err |-> NoErr]

\* Book.ChapterByIndex; index counts from 0
ChapterByIndex(bp, index) ==
    IF bp = None \/ index < 0 \/ index >= Len(bp[1].Chapters)
    THEN [val |-> None, err |-> Err("ErrChapterNotFound", <<"index", index>>)]
    ELSE [val |-> Some(index + 1), err |-> NoErr]

\* Chapter.Text
ChapterText(c) ==
    IF Len(c.Paragraphs) = 0 THEN << >> ELSE JoinWith(c.Paragraphs, str_blankLine)

\* Book.ChapterTextByID
ChapterTextByID(bp, id) ==
    LET r == ChapterByID(bp, id)
    IN  IF r.err # NoErr THEN [val |-> << >>, err |-> r.err]
        ELSE [val |-> ChapterText(bp[1].Chapters[r.val[1]]), err |-> NoErr]

\* Book.ChapterTextByIndex
ChapterTextByIndex(bp, index) ==
    LET r == ChapterByIndex(bp, index)
    IN  IF r.err # NoErr THEN [val |-> << >>, err |-> r.err]
        ELSE [val |-> ChapterText(bp[1].Chapters[r.val[1]]), err |-> NoErr]

\* mutant of AllChaptersText: a chapter without text is joined in as well
AllChaptersTextNoSkip(bp) ==
    IF bp = None THEN << >>
    ELSE JoinWith([k \in 1..Len(bp[1].Chapters) |-> ChapterText(bp[1].Chapters[k])],
                  str_blankLine)

\* Book.AllChaptersText
AllChaptersText(bp) ==
    IF bp = None THEN << >>
    ELSE LET chapters == bp[1].Chapters
             kept == {i \in 1..Len(chapters) : ChapterText(chapters[i]) # << >>}
         IN  JoinWith([k \in 1..Cardinality(kept) |->
                          ChapterText(chapters[Ascending(kept)[k]])],
                      str_blankLine)

-----------------------------------------------------------------------------
(* archive/zip as the code uses it, container.go, reader.go: locating the  *)
(* package document, the TOC document and the chapters                     *)

\* one *zip.File: whether Open succeeds, whether its stream reads to the
\* end, what an XML decoder makes of its bytes (an XmlBytes) and what
\* html.Parse makes of them (an html.Node tree)
ZipFile(opens, reads, xml, html) ==
    [opens |-> opens, reads |-> reads, xml |-> xml, html |-> html]

\* no stream is open and none was closed that was not open
NoStreams == [open |-> {}, twice |-> FALSE, failed |-> {}]

\* the stream of the archive itself, zr in ReadBook
zr == <<"z", "r">>

\* zip.OpenReader / f.Open succeeded: the stream called name is open
Acquire(s, name) == [s EXCEPT !.open = @ \cup {name}]

\* Close on the stream called name; closing a stream that is not open is
\* recorded
\* Close() of stream name returns an error
CloseFails(name) == "closeFails" \in DOMAIN archive /\ name \in archive.closeFails

Release(s, name) ==
    IF name \in s.open
    THEN [s EXCEPT !.open = @ \ {name},
                   !.failed = IF CloseFails(name) THEN @ \cup {name} ELSE @]
    ELSE [s EXCEPT !.twice = TRUE]

\* mutant of getContentStreams: the stream is closed only after a read
\* that succeeded
getContentStreamsLeak(s, name, f) ==
    IF ~f.opens THEN s
    ELSE IF f.reads THEN Release(Acquire(s, name), name) ELSE Acquire(s, name)

\* getContent and the streams: f.Open, defer fileReader.Close(), io.ReadAll;
\* the deferred Close runs whatever ReadAll returned
getContentStreams(s, name, f) ==
    IF ~f.opens THEN s ELSE Release(Acquire(s, name), name)

\* files[name] looked up and, when present, read by getContent
ContentStreams(s, name, files) ==
    IF name \in DOMAIN files THEN getContentStreams(s, name, files[name]) ELSE s

\* ParseChapter and the streams: f.Open, defer rc.Close(), ParseHTML(rc)
ParseChapterStreams(s, name, f) ==
    IF ~f.opens THEN s ELSE Release(Acquire(s, name), name)

\* ReadBook's defer of zr.Close(): it runs when ReadBook returns
Deferred(s, nextpc) == IF nextpc = "done" THEN Release(s, zr) ELSE s

\* getContent: f.Open, then io.ReadAll
getContent(f) ==
    IF ~f.opens THEN [err |-> Err("open entry", << >>), data |-> None]
    ELSE IF ~f.reads THEN [err |-> Err("read entry", << >>), data |-> None]
    ELSE [err |-> NoErr, data |-> Some(f.xml)]

\* ParseContainer
ParseContainer(content) ==
    LET dec == ParseXML(content)
        found == FindNode(dec.root[1], str_rootfiles)
        kids == found[1].XmlNodes
        at == {i \in 1..Len(kids) : EqualFold(kids[i].Local, str_rootfile)}
        rootfiles == [k \in 1..Cardinality(at) |->
                        EmptyXmlNode(kids[Ascending(at)[k]].Local,
                                     AttrMap(kids[Ascending(at)[k]].Attrs))]
    IN  IF dec.err # NoErr
        THEN [err |-> Err("parse container", dec.err.kind), container |-> None]
        ELSE IF found = None
        THEN [err |-> Err("container rootfiles not found", << >>), container |-> None]
        ELSE IF rootfiles = << >>
        THEN [err |-> Err("no rootfile entries in container", << >>), container |-> None]
        ELSE [err |-> NoErr, container |-> Some([Rootfiles |-> rootfiles])]

\* mutant of FindOpfFile: the last usable rootfile is taken
FindOpfFileLast(c) ==
    LET fullPath(i) == TrimSpace(MapGet(c.Rootfiles[i].Attrs, str_fullPath))
        mediaType(i) == TrimSpace(MapGet(c.Rootfiles[i].Attrs, str_mediaType))
        usable == {i \in 1..Len(c.Rootfiles) :
                     /\ fullPath(i) # << >>
                     /\ \/ EqualFold(mediaType(i), str_opfMediaType)
                        \/ EqualFold(mediaType(i), str_epubMediaType)
                        \/ mediaType(i) = << >>}
    IN  IF usable = {} THEN [err |-> Err("no root file found", << >>), path |-> << >>]
        ELSE [err |-> NoErr, path |-> fullPath(Max(usable))]

\* Container.FindOpfFile
FindOpfFile(c) ==
    LET fullPath(i) == TrimSpace(MapGet(c.Rootfiles[i].Attrs, str_fullPath))
        mediaType(i) == TrimSpace(MapGet(c.Rootfiles[i].Attrs, str_mediaType))
        usable == {i \in 1..Len(c.Rootfiles) :
                     /\ fullPath(i) # << >>
                     /\ \/ EqualFold(mediaType(i), str_opfMediaType)
                        \/ EqualFold(mediaType(i), str_epubMediaType)
                        \/ mediaType(i) = << >>}
    IN  IF usable = {} THEN [err |-> Err("no root file found", << >>), path |-> << >>]
        ELSE [err |-> NoErr, path |-> fullPath(Min(usable))]

\* baseDir := path.Dir(opfPath); if baseDir == "." { baseDir = "" }
BaseDir(opfPath) == IF Dir(opfPath) = <<".">> THEN << >> ELSE Dir(opfPath)

\* resolveRelative
resolveRelative(baseDir, href) ==
    IF baseDir = << >> THEN Clean(href) ELSE Clean(Join(baseDir, href))

\* mutant of FindTOCFile: the spine toc attribute is looked at before the
\* nav property
FindTOCFileSpineFirst(opf, opfPath) ==
    LET baseDir == BaseDir(opfPath)
        items == IF opf.Manifest = None THEN << >> ELSE opf.Manifest[1].Items
        spineAttrs == IF opf.Spine = None THEN << >> ELSE opf.Spine[1].Attrs
        href(i) == resolveRelative(baseDir, MapGet(items[i].Attrs, str_href))
        navs == {i \in 1..Len(items) :
                    /\ str_properties \in DOMAIN items[i].Attrs
                    /\ \E p \in Range(Fields(items[i].Attrs[str_properties])) :
                          EqualFold(p, str_nav)}
        byId == {i \in 1..Len(items) :
                    /\ str_toc \in DOMAIN spineAttrs
                    /\ MapGet(items[i].Attrs, str_id) = spineAttrs[str_toc]}
        ncx == {i \in 1..Len(items) :
                    EqualFold(MapGet(items[i].Attrs, str_mediaType), str_ncxMediaType)}
    IN  IF byId # {} THEN [tocType |-> "EPUB2", tocFile |-> href(Min(byId))]
        ELSE IF navs # {} THEN [tocType |-> "EPUB3", tocFile |-> href(Min(navs))]
        ELSE IF ncx # {} THEN [tocType |-> "EPUB2", tocFile |-> href(Min(ncx))]
        ELSE [tocType |-> "UNKNOWN", tocFile |-> << >>]

\* Opf.FindTOCFile
FindTOCFile(opf, opfPath) ==
    LET baseDir == BaseDir(opfPath)
        items == IF opf.Manifest = None THEN << >> ELSE opf.Manifest[1].Items
        spineAttrs == IF opf.Spine = None THEN << >> ELSE opf.Spine[1].Attrs
        href(i) == resolveRelative(baseDir, MapGet(items[i].Attrs, str_href))
        navs == {i \in 1..Len(items) :
                    /\ str_properties \in DOMAIN items[i].Attrs
                    /\ \E p \in Range(Fields(items[i].Attrs[str_properties])) :
                          EqualFold(p, str_nav)}
        byId == {i \in 1..Len(items) :
                    /\ str_toc \in DOMAIN spineAttrs
                    /\ MapGet(items[i].Attrs, str_id) = spineAttrs[str_toc]}
        ncx == {i \in 1..Len(items) :
                    EqualFold(MapGet(items[i].Attrs, str_mediaType), str_ncxMediaType)}
    IN  IF navs # {} THEN [tocType |-> "EPUB3", tocFile |-> href(Min(navs))]
        ELSE IF byId # {} THEN [tocType |-> "EPUB2", tocFile |-> href(Min(byId))]
        ELSE IF ncx # {} THEN [tocType |-> "EPUB2", tocFile |-> href(Min(ncx))]
        ELSE [tocType |-> "UNKNOWN", tocFile |-> << >>]

\* mutant of HrefLookup: an id keeps the href of its first manifest item
HrefLookupFirstWins(mf, opfPath) ==
    IF mf = None THEN << >>
    ELSE LET items == mf[1].Items
             id(i) == TrimSpace(MapGet(items[i].Attrs, str_id))
             href(i) == TrimSpace(MapGet(items[i].Attrs, str_href))
             valid == {i \in 1..Len(items) : id(i) # << >> /\ href(i) # << >>}
         IN  [k \in {id(i) : i \in valid} |->
                 resolveRelative(BaseDir(opfPath),
                                 href(Min({i \in valid : id(i) = k})))]

\* Manifest.HrefLookup: a later item of the same id overwrites an earlier one
HrefLookup(mf, opfPath) ==
    IF mf = None THEN << >>
    ELSE LET items == mf[1].Items
             id(i) == TrimSpace(MapGet(items[i].Attrs, str_id))
             href(i) == TrimSpace(MapGet(items[i].Attrs, str_href))
             valid == {i \in 1..Len(items) : id(i) # << >> /\ href(i) # << >>}
         IN  [k \in {id(i) : i \in valid} |->
                 resolveRelative(BaseDir(opfPath),
                                 href(Max({i \in valid : id(i) = k})))]

\* mutant of ExtractChapterIDs: the linear attribute is not looked at
ExtractChapterIDsAll(spine) ==
    IF spine = None THEN << >>
    ELSE LET refs == spine[1].Itemrefs
             kept == {i \in 1..Len(refs) : TrimSpace(MapGet(refs[i].Attrs, str_idref)) # << >>}
         IN  [k \in 1..Cardinality(kept) |->
                 TrimSpace(MapGet(refs[Ascending(kept)[k]].Attrs, str_idref))]

\* mutant of ExtractChapterIDs: linear is compared with "no" as written
ExtractChapterIDsExactNo(spine) ==
    IF spine = None THEN << >>
    ELSE LET refs == spine[1].Itemrefs
             kept == {i \in 1..Len(refs) :
                        /\ TrimSpace(MapGet(refs[i].Attrs, str_idref)) # << >>
                        /\ ~(/\ str_linear \in DOMAIN refs[i].Attrs
                             /\ refs[i].Attrs[str_linear] = str_no)}
         IN  [k \in 1..Cardinality(kept) |->
                 TrimSpace(MapGet(refs[Ascending(kept)[k]].Attrs, str_idref))]

\* Spine.ExtractChapterIDs
ExtractChapterIDs(spine) ==
    IF spine = None THEN << >>
    ELSE LET refs == spine[1].Itemrefs
             kept == {i \in 1..Len(refs) :
                        /\ TrimSpace(MapGet(refs[i].Attrs, str_idref)) # << >>
                        /\ ~(/\ str_linear \in DOMAIN refs[i].Attrs
                             /\ EqualFold(refs[i].Attrs[str_linear], str_no))}
         IN  [k \in 1..Cardinality(kept) |->
                 TrimSpace(MapGet(refs[Ascending(kept)[k]].Attrs, str_idref))]

-----------------------------------------------------------------------------
(* toc.go: reading the TOC document *)

RECURSIVE FindTocNav(_)
\* findNav in parseNavXML: the first <nav>, depth-first, one of whose
\* attributes is named type and holds "toc"
FindTocNav(n) ==
    IF /\ n.Local = str_nav
       /\ \E i \in 1..Len(n.Attrs) :
             /\ n.Attrs[i].Local \in {str_type, str_epubType}
             /\ Contains(n.Attrs[i].Value, str_toc)
    THEN Some(n)
    ELSE LET sub == [i \in 1..Len(n.XmlNodes) |-> FindTocNav(n.XmlNodes[i])]
             hit == {i \in 1..Len(sub) : sub[i] # None}
         IN  IF hit = {} THEN None ELSE sub[Min(hit)]

RECURSIVE parseListKeepsUntitled(_, _)
\* mutant of parseList: an <li> without title gives an entry as well
parseListKeepsUntitled(node, basePath) ==
    LET entry(li) ==
            LET kids == li.XmlNodes
                as == {j \in 1..Len(kids) : kids[j].Local = str_a}
                linked == {j \in as : \E k \in 1..Len(kids[j].Attrs) :
                                         kids[j].Attrs[k].Local = str_href}
                ols == {j \in 1..Len(kids) : kids[j].Local = str_ol}
                hrefOf(a) == a.Attrs[Min({k \in 1..Len(a.Attrs) :
                                            a.Attrs[k].Local = str_href})].Value
            IN  TocEntry(IF as = {} THEN << >>
                         ELSE TrimSpace(XmlNodeText(kids[Max(as)])),
                         IF linked = {} THEN << >>
                         ELSE resolveRelative(basePath, hrefOf(kids[Max(linked)])),
                         IF ols = {} THEN << >>
                         ELSE parseListKeepsUntitled(kids[Max(ols)], basePath))
        kept == {i \in 1..Len(node.XmlNodes) : node.XmlNodes[i].Local = str_li}
    IN  [k \in 1..Cardinality(kept) |-> entry(node.XmlNodes[Ascending(kept)[k]])]

RECURSIVE parseList(_, _)
\* parseList in parseNavXML: one entry per <li> that has a title.  Of the
\* children of the <li>, the last <a> gives the title, the last <a> with an
\* href attribute the href, the last <ol> the children.
parseList(node, basePath) ==
    LET entry(li) ==
            LET kids == li.XmlNodes
                as == {j \in 1..Len(kids) : kids[j].Local = str_a}
                linked == {j \in as : \E k \in 1..Len(kids[j].Attrs) :
                                         kids[j].Attrs[k].Local = str_href}
                ols == {j \in 1..Len(kids) : kids[j].Local = str_ol}
                hrefOf(a) == a.Attrs[Min({k \in 1..Len(a.Attrs) :
                                            a.Attrs[k].Local = str_href})].Value
            IN  TocEntry(IF as = {} THEN << >>
                         ELSE TrimSpace(XmlNodeText(kids[Max(as)])),
                         IF linked = {} THEN << >>
                         ELSE resolveRelative(basePath, hrefOf(kids[Max(linked)])),
                         IF ols = {} THEN << >>
                         ELSE parseList(kids[Max(ols)], basePath))
        kept == {i \in 1..Len(node.XmlNodes) :
                    /\ node.XmlNodes[i].Local = str_li
                    /\ entry(node.XmlNodes[i]).Title # << >>}
    IN  [k \in 1..Cardinality(kept) |-> entry(node.XmlNodes[Ascending(kept)[k]])]

\* parseNavXML
parseNavXML(content, basePath) ==
    LET dec == ParseXML(content)
        tocNav == FindTocNav(dec.root[1])
        ol == FindNode(tocNav[1], str_ol)
    IN  IF dec.err # NoErr
        THEN [err |-> Err("parseNavXML: invalid XHTML", dec.err.kind), entries |-> << >>]
        ELSE IF tocNav = None
        THEN [err |-> Err("parseNavXML: toc <nav> not found", << >>), entries |-> << >>]
        ELSE IF ol = None
        THEN [err |-> Err("parseNavXML: <ol> not found in toc nav", << >>), entries |-> << >>]
        ELSE [err |-> NoErr, entries |-> parseList(ol[1], basePath)]

RECURSIVE parseNavPointsHoist(_, _)
\* mutant of parseNavPoints: the entries nested in a navPoint without label
\* take its place
parseNavPointsHoist(nodes, basePath) ==
    LET point(n) ==
            LET kids == n.XmlNodes
                labels == {j \in 1..Len(kids) : kids[j].Local = str_navLabel}
                srcs(j) == {k \in 1..Len(kids[j].Attrs) : kids[j].Attrs[k].Local = str_src}
                sourced == {j \in 1..Len(kids) :
                               kids[j].Local = str_content /\ srcs(j) # {}}
                href == IF sourced = {} THEN << >>
                        ELSE resolveRelative(basePath,
                                 TrimSpace(kids[Max(sourced)].Attrs[Max(srcs(Max(sourced)))].Value))
            IN  TocEntry(IF labels = {} THEN << >>
                         ELSE TrimSpace(XmlNodeText(kids[Max(labels)])),
                         Clean(href),
                         parseNavPointsHoist(kids, basePath))
        points == {i \in 1..Len(nodes) : nodes[i].Local = str_navPoint}
    IN  Flat([k \in 1..Cardinality(points) |->
                LET e == point(nodes[Ascending(points)[k]])
                IN  IF e.Title # << >> THEN <<e>> ELSE e.Children])

RECURSIVE parseNavPoints(_, _)
\* parseNavPoints in parseNCX: one entry per <navPoint> that has a label.
\* The last <navLabel> child gives the label, the last src attribute of the
\* last <content> child that has one the href.
parseNavPoints(nodes, basePath) ==
    LET point(n) ==
            LET kids == n.XmlNodes
                labels == {j \in 1..Len(kids) : kids[j].Local = str_navLabel}
                srcs(j) == {k \in 1..Len(kids[j].Attrs) : kids[j].Attrs[k].Local = str_src}
                sourced == {j \in 1..Len(kids) :
                               kids[j].Local = str_content /\ srcs(j) # {}}
                href == IF sourced = {} THEN << >>
                        ELSE resolveRelative(basePath,
                                 TrimSpace(kids[Max(sourced)].Attrs[Max(srcs(Max(sourced)))].Value))
            IN  TocEntry(IF labels = {} THEN << >>
                         ELSE TrimSpace(XmlNodeText(kids[Max(labels)])),
                         Clean(href),
                         parseNavPoints(kids, basePath))
        kept == {i \in 1..Len(nodes) :
                    nodes[i].Local = str_navPoint /\ point(nodes[i]).Title # << >>}
    IN  [k \in 1..Cardinality(kept) |-> point(nodes[Ascending(kept)[k]])]

\* parseNCX
parseNCX(content, basePath) ==
    LET dec == ParseXML(content)
        navMap == FindNode(dec.root[1], str_navMap)
    IN  IF dec.err # NoErr
        THEN [err |-> Err("parseNCX: invalid XML", dec.err.kind), entries |-> << >>]
        ELSE IF navMap = None
        THEN [err |-> Err("parseNCX: no navMap found", << >>), entries |-> << >>]
        ELSE [err |-> NoErr, entries |-> parseNavPoints(navMap[1].XmlNodes, basePath)]

\* ParseTOC once the entry is found: read it and parse it by its type
ParseTOCEntry(tocType, f, opfDir) ==
    LET content == getContent(f)
    IN  IF content.err # NoErr THEN [err |-> content.err, entries |-> << >>]
        ELSE IF tocType = "EPUB3" THEN parseNavXML(content.data[1], opfDir)
        ELSE IF tocType = "EPUB2" THEN parseNCX(content.data[1], opfDir)
        ELSE [err |-> Err("unknown toc type", << >>), entries |-> << >>]

\* ParseTOC and the streams: files[path.Join(opfDir, tocFile)] read by
\* getContent
ParseTOCStreams(s, tocFile, opfDir, files) ==
    ContentStreams(s, Join(opfDir, tocFile), files)

\* mutant of ParseTOC: a TOC document that is not in the archive is an
\* empty TOC
ParseTOCMissingOk(tocType, tocFile, opfDir, files) ==
    IF Join(opfDir, tocFile) \notin DOMAIN files
    THEN [err |-> NoErr, entries |-> << >>]
    ELSE ParseTOCEntry(tocType, files[Join(opfDir, tocFile)], opfDir)

\* ParseTOC
ParseTOC(tocType, tocFile, opfDir, files) ==
    IF Join(opfDir, tocFile) \notin DOMAIN files
    THEN [err |-> Err("toc file not found", tocFile), entries |-> << >>]
    ELSE ParseTOCEntry(tocType, files[Join(opfDir, tocFile)], opfDir)

-----------------------------------------------------------------------------
(* html.go, chapter.go: reading a chapter *)

\* an html.Node of golang.org/x/net/html, as html.Parse returns it: Type is
\* "DocumentNode", "DoctypeNode", "ElementNode", "TextNode" or "CommentNode"
HtmlRaw(type, data, attr, kids) ==
    [Type |-> type, Data |-> data, Attr |-> attr, Kids |-> kids]

\* type HtmlNode
HtmlNode(type, name, attrs, content, children) ==
    [Type |-> type, Name |-> name, Attrs |-> attrs, Content |-> content,
     Children |-> children]

RECURSIVE convertHTMLNode(_)
\* convertHTMLNode: nil for anything but an element and a text that is not
\* blank
convertHTMLNode(n) ==
    IF n.Type = "ElementNode"
    THEN Some(HtmlNode("ElementNode", n.Data, AttrMap(n.Attr), << >>,
                       Flat([i \in 1..Len(n.Kids) |-> convertHTMLNode(n.Kids[i])])))
    ELSE IF n.Type = "TextNode" /\ TrimSpace(n.Data) # << >>
         THEN Some(HtmlNode("TextNode", << >>, << >>, TrimSpace(n.Data), << >>))
         ELSE None

\* ParseHTML on the stream of the entry f
ParseHTML(f) ==
    IF ~f.reads THEN [err |-> Err("read entry", << >>), root |-> None]
    ELSE [err |-> NoErr, root |-> convertHTMLNode(f.html)]

RECURSIVE HtmlTexts(_)
\* what the loop of HtmlNode.NodeText writes: each text, depth-first, and a
\* space after it
HtmlTexts(n) ==
    (IF n.Type = "TextNode" THEN n.Content \o <<" ">> ELSE << >>)
        \o Flat([i \in 1..Len(n.Children) |-> HtmlTexts(n.Children[i])])

\* HtmlNode.NodeText
HtmlNodeText(hn) == IF hn = None THEN << >> ELSE TrimSpace(HtmlTexts(hn[1]))

RECURSIVE findElement(_, _)
\* findElement
findElement(n, name) ==
    IF n = None THEN None
    ELSE IF n[1].Type = "ElementNode" /\ n[1].Name = name THEN n
    ELSE LET sub == [i \in 1..Len(n[1].Children) |->
                        findElement(Some(n[1].Children[i]), name)]
             hit == {i \in 1..Len(sub) : sub[i] # None}
         IN  IF hit = {} THEN None ELSE sub[Min(hit)]

\* HtmlNode.FindNode
HtmlFindNode(hn, name) ==
    IF hn = None THEN None
    ELSE IF hn[1].Type = "ElementNode" /\ hn[1].Name = name THEN hn
    ELSE LET sub == [i \in 1..Len(hn[1].Children) |->
                        findElement(Some(hn[1].Children[i]), name)]
             hit == {i \in 1..Len(sub) : sub[i] # None}
         IN  IF hit = {} THEN None ELSE sub[Min(hit)]

\* findFirstText
findFirstText(n, name) == HtmlNodeText(findElement(n, name))

RECURSIVE extractParagraphs(_)
\* extractParagraphs
extractParagraphs(body) ==
    IF body = None THEN << >>
    ELSE Flat([i \in 1..Len(body[1].Children) |->
            LET c == body[1].Children[i]
            IN  IF c.Type = "ElementNode" /\ c.Name \in {str_p, str_div}
                THEN IF HtmlNodeText(Some(c)) # << >>
                     THEN <<HtmlNodeText(Some(c))>> ELSE << >>
                ELSE extractParagraphs(Some(c))])

RECURSIVE extractImages(_, _)
\* extractImages
extractImages(body, base) ==
    IF body = None THEN << >>
    ELSE (IF /\ body[1].Type = "ElementNode"
             /\ body[1].Name = str_img
             /\ str_src \in DOMAIN body[1].Attrs
          THEN <<Join(base, body[1].Attrs[str_src])>> ELSE << >>)
         \o Flat([i \in 1..Len(body[1].Children) |->
                    extractImages(Some(body[1].Children[i]), base)])

\* type Chapter
Chapter(id, path, title, paragraphs, images) ==
    [ID |-> id, Path |-> path, Title |-> title, Paragraphs |-> paragraphs,
     Images |-> images]

\* ParseChapter
ParseChapter(id, href, f) ==
    LET parsed == ParseHTML(f)
        root == parsed.root
        found == HtmlFindNode(root, str_body)
        body == IF found = None THEN root ELSE found
    IN  IF ~f.opens THEN [err |-> Err("open entry", << >>), chapter |-> None]
        ELSE IF parsed.err # NoErr THEN [err |-> parsed.err, chapter |-> None]
        ELSE [err |-> NoErr,
              chapter |-> Some(Chapter(id, href, findFirstText(root, str_title),
                                       extractParagraphs(body),
                                       extractImages(body, Dir(href))))]

-----------------------------------------------------------------------------
(* book.go: ReadBook, one action per stage of the function *)

\* mutant of NewBook: ReadBook goes on with the Book it filled before
NewBookReused == book

\* NewBook
NewBook == Book(None, None, None, << >>)

\* an archive that was never read: the book was handed over as it is
NoArchive == [opens |-> FALSE, files |-> << >>]

\* ReadBook's locals opfPath, opfDir, chapterIDs, hrefLookup and the
\* position of its loop over chapterIDs
Locals(opfPath, opfDir, chapterIDs, hrefLookup, i) ==
    [opfPath |-> opfPath, opfDir |-> opfDir, chapterIDs |-> chapterIDs,
     hrefLookup |-> hrefLookup, i |-> i]

NoLocals == Locals(<< >>, << >>, << >>, << >>, 0)

\* return nil, err
Fail(e) ==
    /\ ret' = Call("ReadBook", << >>, None, e)
    /\ pc' = "done"

\* mutant of HasTOC: ParseTOC is called whatever FindTOCFile returned
HasTOCAlways(tocType, tocFile) == TRUE

\* if tocType != TOCTypeUnknown && tocFile != ""
HasTOC(tocType, tocFile) == tocType # "UNKNOWN" /\ tocFile # << >>

\* tocRef: tocFile without the leading opfDir + "/"
TocRef(tocFile, opfDir) ==
    IF opfDir # << >> /\ HasPrefix(tocFile, opfDir \o <<"/">>)
    THEN TrimPrefix(tocFile, opfDir \o <<"/">>)
    ELSE tocFile

\* zip.OpenReader(epubPath); NewBook(); collectFiles
OpenArchive ==
    /\ pc = "open"
    /\ IF ~archive.opens
       THEN Fail(Err("open archive", << >>)) /\ UNCHANGED <<book, streams>>
       ELSE /\ pc' = "container" /\ book' = NewBook /\ UNCHANGED ret
            /\ streams' = Acquire(streams, zr)
    /\ UNCHANGED <<archive, locals>>

\* files["META-INF/container.xml"], getContent, ParseContainer
ReadContainer ==
    /\ pc = "container"
    /\ LET content == getContent(archive.files[str_containerPath])
           parsed == ParseContainer(content.data[1])
       IN  IF str_containerPath \notin DOMAIN archive.files
           THEN Fail(Err("container.xml not found", << >>)) /\ UNCHANGED book
           ELSE IF content.err # NoErr
           THEN Fail(Err("read container", content.err.kind)) /\ UNCHANGED book
           ELSE IF parsed.err # NoErr
           THEN Fail(parsed.err) /\ UNCHANGED book
           ELSE /\ book' = [book EXCEPT !.Container = parsed.container]
                /\ pc' = "opfpath"
                /\ UNCHANGED ret
    /\ streams' = Deferred(ContentStreams(streams, str_containerPath, archive.files), pc')
    /\ UNCHANGED <<archive, locals>>

\* container.FindOpfFile, path.Clean, files[opfPath]
LocateOpf ==
    /\ pc = "opfpath"
    /\ LET found == FindOpfFile(book.Container[1])
           opfPath == Clean(found.path)
       IN  IF found.err # NoErr
           THEN Fail(found.err) /\ UNCHANGED locals
           ELSE IF opfPath \notin DOMAIN archive.files
           THEN Fail(Err("opf file not found", opfPath)) /\ UNCHANGED locals
           ELSE /\ locals' = [locals EXCEPT !.opfPath = opfPath]
                /\ pc' = "opf"
                /\ UNCHANGED ret
    /\ streams' = Deferred(streams, pc')
    /\ UNCHANGED <<archive, book>>

\* getContent(opfFile), ParseOpf, opfDir
ReadOpf ==
    /\ pc = "opf"
    /\ LET content == getContent(archive.files[locals.opfPath])
           parsed == ParseOpf(content.data[1])
       IN  IF content.err # NoErr
           THEN Fail(Err("read opf", content.err.kind)) /\ UNCHANGED <<book, locals>>
           ELSE IF parsed.err # NoErr
           THEN Fail(parsed.err) /\ UNCHANGED <<book, locals>>
           ELSE /\ book' = [book EXCEPT !.Opf = parsed.opf]
                /\ locals' = [locals EXCEPT !.opfDir = BaseDir(locals.opfPath)]
                /\ pc' = "toc"
                /\ UNCHANGED ret
    /\ streams' = Deferred(ContentStreams(streams, locals.opfPath, archive.files), pc')
    /\ UNCHANGED archive

\* opf.FindTOCFile and, if it names a TOC document, ParseTOC
ReadTOC ==
    /\ pc = "toc"
    /\ LET toc == FindTOCFile(book.Opf[1], locals.opfPath)
           parsed == ParseTOC(toc.tocType, TocRef(toc.tocFile, locals.opfDir),
                              locals.opfDir, archive.files)
       IN  IF ~HasTOC(toc.tocType, toc.tocFile)
           THEN pc' = "spine" /\ UNCHANGED <<book, ret>>
           ELSE IF parsed.err # NoErr
           THEN Fail(Err("parse toc", parsed.err.kind)) /\ UNCHANGED book
           ELSE /\ book' = [book EXCEPT !.TOC = Some(TocRoot(parsed.entries))]
                /\ pc' = "spine"
                /\ UNCHANGED ret
    /\ LET toc == FindTOCFile(book.Opf[1], locals.opfPath)
       IN  streams' =
              Deferred(IF HasTOC(toc.tocType, toc.tocFile)
                       THEN ParseTOCStreams(streams, TocRef(toc.tocFile, locals.opfDir),
                                            locals.opfDir, archive.files)
                       ELSE streams,
                       pc')
    /\ UNCHANGED <<archive, locals>>

\* opf.Spine.ExtractChapterIDs(), opf.Manifest.HrefLookup(opfPath)
ListChapters ==
    /\ pc = "spine"
    /\ locals' = [locals EXCEPT
                    !.chapterIDs = ExtractChapterIDs(book.Opf[1].Spine),
                    !.hrefLookup = HrefLookup(book.Opf[1].Manifest, locals.opfPath),
                    !.i = 1]
    /\ pc' = "chapters"
    /\ UNCHANGED <<archive, book, ret, streams>>

\* one turn of the loop over chapterIDs
ReadChapter ==
    /\ pc = "chapters"
    /\ locals.i <= Len(locals.chapterIDs)
    /\ LET id == locals.chapterIDs[locals.i]
           href == Clean(locals.hrefLookup[id])
           parsed == ParseChapter(id, href, archive.files[href])
       IN  IF id \notin DOMAIN locals.hrefLookup \/ href \notin DOMAIN archive.files
           THEN /\ locals' = [locals EXCEPT !.i = locals.i + 1]
                /\ UNCHANGED <<pc, book, ret>>
           ELSE IF parsed.err # NoErr
           THEN Fail(Err("parse chapter", id)) /\ UNCHANGED <<book, locals>>
           ELSE /\ book' = [book EXCEPT !.Chapters = Append(@, parsed.chapter[1])]
                /\ locals' = [locals EXCEPT !.i = locals.i + 1]
                /\ UNCHANGED <<pc, ret>>
    /\ LET id == locals.chapterIDs[locals.i]
           href == Clean(locals.hrefLookup[id])
       IN  streams' =
              Deferred(IF id \in DOMAIN locals.hrefLookup /\ href \in DOMAIN archive.files
                       THEN ParseChapterStreams(streams, href, archive.files[href])
                       ELSE streams,
                       pc')
    /\ UNCHANGED archive

\* return book, nil
ReturnBook ==
    /\ pc = "chapters"
    /\ locals.i > Len(locals.chapterIDs)
    /\ ret' = Call("ReadBook", << >>, Some(book), NoErr)
    /\ pc' = "done"
    /\ streams' = Deferred(streams, pc')
    /\ UNCHANGED <<archive, locals, book>>

NextRead ==
    \/ OpenArchive
    \/ ReadContainer
    \/ LocateOpf
    \/ ReadOpf
    \/ ReadTOC
    \/ ListChapters
    \/ ReadChapter
    \/ ReturnBook

-----------------------------------------------------------------------------
(* The TOC trees and hrefs the TOC specification ranges over *)

sA == <<"A">>
sB == <<"B">>

\* entries: two spellings of the same target, a second target, no target
TocLabels ==
    { [Title |-> sA, Href |-> <<"a">>],
      [Title |-> sB, Href |-> <<".", "/", "a">>],
      [Title |-> sB, Href |-> <<"d", "/", "a">>],
      [Title |-> sA, Href |-> << >>] }

HrefInputs ==
    { << >>, <<".">>, <<"a">>, <<"a", "/">>, <<"d", "/", ".", ".", "/", "a">>,
      <<"d", "/", "a">>, <<"b">> }

RECURSIVE Forests(_)
\* all sequences of TOC entries holding exactly n entries, nested ones included
Forests(n) ==
    IF n = 0 THEN {<< >>}
    ELSE UNION { { <<TocEntry(l.Title, l.Href, kids)>> \o rest :
                     l \in TocLabels, kids \in Forests(k - 1), rest \in Forests(n - k) }
                 : k \in 1..n }

TocTrees == UNION { {TocRoot(f) : f \in Forests(n)} : n \in 0..MaxTocNodes }

-----------------------------------------------------------------------------
(* Specification SpecTOC: the TOC methods on a book whose TOC is any tree *)

InitTOC ==
    /\ streams = NoStreams
    /\ book \in {Book(None, None, None, << >>)}
                \cup {Book(None, None, Some(t), << >>) : t \in TocTrees}
    /\ ret = NoCall
    /\ archive = NoArchive
    /\ pc = "done"
    /\ locals = NoLocals

\* b.TOC.Flatten()
CallFlatten ==
    /\ ret = NoCall
    /\ book.TOC # None
    /\ ret' = Call("Flatten", << >>, Flatten(book.TOC[1]), NoErr)
    /\ UNCHANGED <<archive, pc, locals, book, streams>>

\* b.FlattenTOC()
CallFlattenTOC ==
    /\ ret = NoCall
    /\ ret' = Call("FlattenTOC", << >>, FlattenTOC(book), NoErr)
    /\ UNCHANGED <<archive, pc, locals, book, streams>>

\* b.TOC.FindByHref(href)
CallFindByHref ==
    /\ ret = NoCall
    /\ book.TOC # None
    /\ \E href \in HrefInputs :
          ret' = Call("FindByHref", href, FindByHref(book.TOC[1], href), NoErr)
    /\ UNCHANGED <<archive, pc, locals, book, streams>>

\* the caller takes the result; the next call starts from there (the
\* library is synchronous: one call at a time)
TakeResult ==
    /\ ret # NoCall
    /\ ret' = NoCall
    /\ UNCHANGED <<archive, pc, locals, book, streams>>

NextTOC == CallFlatten \/ CallFlattenTOC \/ CallFindByHref \/ TakeResult

SpecTOC == InitTOC /\ [][NextTOC]_vars

-----------------------------------------------------------------------------
(* Positions in a TOC tree: a node is named by the child indexes leading   *)
(* to it from the root; depth-first pre-order is the lexicographic order   *)
(* of these index paths, a path coming before its extensions.              *)

RECURSIVE Positions(_)
Positions(t) ==
    {<< >>} \cup UNION { { <<i>> \o p : p \in Positions(t.Children[i]) }
                         : i \in 1..Len(t.Children) }

RECURSIVE NodeAt(_, _)
NodeAt(t, p) == IF p = << >> THEN t ELSE NodeAt(t.Children[Head(p)], Tail(p))

PreBefore(p, q) ==
    \/ Len(p) < Len(q) /\ SubSeq(q, 1, Len(p)) = p
    \/ \E i \in 1..Len(p) :
          /\ i <= Len(q)
          /\ SubSeq(p, 1, i - 1) = SubSeq(q, 1, i - 1)
          /\ p[i] < q[i]

\* the nodes at the positions P, one per position, in depth-first pre-order
NodesInPreOrder(t, P) ==
    [i \in 1..Cardinality(P) |->
        NodeAt(t, CHOOSE p \in P : Cardinality({q \in P : PreBefore(q, p)}) = i - 1)]

\* the positions whose href, once normalized, is the normalized href h
MatchingAll(t, h) == {p \in Positions(t) : Clean(NodeAt(t, p).Href) = Clean(h)}
\* ... among the entries that have an href at all
MatchingLinked(t, h) == {p \in MatchingAll(t, h) : NodeAt(t, p).Href # << >>}

\* C4 (as amended): Book.FlattenTOC omits the synthetic root and lists every
\* other node of the tree exactly once in depth-first pre-order; TOC.Flatten
\* lists every node of the tree exactly once in depth-first pre-order and
\* begins with the node it is called on, which for Book.TOC is the root.
C4_FlattenPreOrder ==
    /\ ret.op = "FlattenTOC" =>
          ret.val = IF book.TOC = None THEN << >>
                    ELSE NodesInPreOrder(book.TOC[1], Positions(book.TOC[1]) \ {<< >>})
    /\ ret.op = "Flatten" =>
          ret.val = NodesInPreOrder(book.TOC[1], Positions(book.TOC[1]))

\* C4 witness: FlattenTOC has flattened a tree with a nested entry that is
\* followed by a further top-level entry
C4_Witness ==
    /\ ret.op = "FlattenTOC"
    /\ book.TOC # None
    /\ {<<1, 1>>, <<2>>} \subseteq Positions(book.TOC[1])
    /\ Len(ret.val) = 3

\* C4 (as claimed): TOC.Flatten and Book.FlattenTOC both omit the synthetic
\* root and list every other node exactly once in depth-first pre-order.
C4_Original ==
    ret.op \in {"FlattenTOC", "Flatten"} /\ book.TOC # None =>
        ret.val = NodesInPreOrder(book.TOC[1], Positions(book.TOC[1]) \ {<< >>})

\* C5 (as amended): FindByHref(h) returns none or a node whose normalized
\* href is the normalized h; it returns none only when no node with a
\* non-empty href has that normalized href, and otherwise the first such node
\* in depth-first pre-order.  Nodes with an empty href never match.
C5_FindByHrefFirstLinked ==
    ret.op = "FindByHref" =>
        LET t == book.TOC[1]
            P == MatchingLinked(t, ret.arg)
        IN  /\ ret.val # None => Clean(ret.val[1].Href) = Clean(ret.arg)
            /\ ret.val = None <=> P = {}
            /\ P # {} => ret.val = Some(NodesInPreOrder(t, P)[1])

\* C5 witness: two different entries match and the first one was returned
C5_Witness ==
    /\ ret.op = "FindByHref"
    /\ ret.val # None
    /\ \E p, q \in MatchingLinked(book.TOC[1], ret.arg) :
          /\ PreBefore(p, q)
          /\ NodeAt(book.TOC[1], p) # NodeAt(book.TOC[1], q)
          /\ NodeAt(book.TOC[1], p).Href # ret.arg

\* C5 (as claimed): FindByHref(h) returns none only when no node of the tree
\* has a normalized href equal to the normalized h, and otherwise the first
\* such node in depth-first pre-order.
C5_Original ==
    ret.op = "FindByHref" =>
        LET t == book.TOC[1]
            P == MatchingAll(t, ret.arg)
        IN  /\ ret.val # None => Clean(ret.val[1].Href) = Clean(ret.arg)
            /\ ret.val = None <=> P = {}
            /\ P # {} => ret.val = Some(NodesInPreOrder(t, P)[1])

-----------------------------------------------------------------------------
(* Specification SpecMeta: the metadata accessors on a book whose package  *)
(* document has any short sequence of metadata children                     *)

\* children of <metadata>: the same tag in two namespaces (one of them the
\* inherited default), a capitalised tag, a field present but blank, and
\* <meta> elements with and without name, property, content and text
MetaChildren ==
    { XmlNode(ns_dc, str_title, << >>, <<" ", "A">>, << >>),
      XmlNode(<< >>, str_title, << >>, <<"B">>, << >>),
      XmlNode(ns_dc, str_Title, << >>, <<"C">>, << >>),
      XmlNode(ns_dc, str_publisher, << >>, <<" ">>, << >>),
      XmlNode(ns_opf, str_meta,
              <<Attr(str_name, <<"n">>), Attr(str_content, <<"X">>)>>, << >>, << >>),
      XmlNode(ns_dc, str_meta, <<Attr(str_name, <<"n">>)>>, <<"Y">>, << >>),
      XmlNode(ns_opf, str_meta, <<Attr(str_property, <<"p">>)>>, <<"Z">>, << >>),
      XmlNode(ns_opf, str_meta, << >>, << >>, << >>),
      XmlNode(ns_opf, str_meta,
              <<Attr(str_name, << >>), Attr(str_property, <<"p">>),
                Attr(str_content, <<"W">>)>>, << >>, << >>) }

\* keys the caller asks for: canonical, padded and capitalised, blank, not
\* a Dublin Core name
KeyInputs ==
    { str_title, <<" ", "T", "i", "t", "l", "e", " ">>, str_publisher, str_creator,
      str_meta, <<" ">> }

\* a package document whose <metadata> has the children kids
PackageDoc(kids) ==
    XmlNode(ns_opf, str_package, << >>, << >>,
            << XmlNode(ns_opf, str_metadata, << >>, << >>, kids),
               XmlNode(ns_opf, str_manifest, << >>, << >>, << >>),
               XmlNode(ns_opf, str_spine, << >>, << >>, << >>) >>)

\* the book ReadBook leaves of such a package document, metadata only
MetaBook(kids) ==
    Book(None, ParseOpf(XmlBytes(<< >>, TRUE, PackageDoc(kids))).opf, None, << >>)

InitMeta ==
    /\ streams = NoStreams
    /\ book \in {Book(None, None, None, << >>)}
                \cup {MetaBook(kids) : kids \in SeqsUpTo(MetaChildren, MaxMeta)}
    /\ ret = NoCall
    /\ archive = NoArchive
    /\ pc = "done"
    /\ locals = NoLocals

\* b.MetadataValues(key)
CallMetadataValues ==
    /\ ret = NoCall
    /\ \E key \in KeyInputs, order \in BookMapOrders(book) :
          LET r == MetadataValues(book, key, order)
          IN  ret' = Call("MetadataValues", key, r.val, r.err)
    /\ UNCHANGED <<archive, pc, locals, book, streams>>

\* b.MetadataByKey(key)
CallMetadataByKey ==
    /\ ret = NoCall
    /\ \E key \in KeyInputs, order \in BookMapOrders(book) :
          LET r == MetadataByKey(book, key, order)
          IN  ret' = Call("MetadataByKey", key, r.val, r.err)
    /\ UNCHANGED <<archive, pc, locals, book, streams>>

\* b.MetadataValue(key)
CallMetadataValue ==
    /\ ret = NoCall
    /\ \E key \in KeyInputs, order \in BookMapOrders(book) :
          LET r == MetadataValue(book, key, order)
          IN  ret' = Call("MetadataValue", key, r.val, r.err)
    /\ UNCHANGED <<archive, pc, locals, book, streams>>

\* b.Title(), b.Creator(), ..., b.Rights()
CallDublinCoreHelper ==
    /\ ret = NoCall
    /\ \E key \in Range(dublinCoreDeclared), order \in BookMapOrders(book) :
          LET r == DublinCoreHelper(book, key, order)
          IN  ret' = Call("DublinCoreHelper", key, r.val, r.err)
    /\ UNCHANGED <<archive, pc, locals, book, streams>>

\* b.AllMetadata()
CallAllMetadata ==
    /\ ret = NoCall
    /\ \E order \in BookMapOrders(book) :
          ret' = Call("AllMetadata", << >>, AllMetadata(book, order), NoErr)
    /\ UNCHANGED <<archive, pc, locals, book, streams>>

\* b.Opf.Metadata.GetAll()
CallGetAll ==
    /\ ret = NoCall
    /\ book.Opf # None
    /\ \E order \in BookMapOrders(book) :
          ret' = Call("GetAll", << >>, GetAll(BookMetadata(book), order), NoErr)
    /\ UNCHANGED <<archive, pc, locals, book, streams>>

\* b.Opf.Metadata.Normalize()
CallNormalize ==
    /\ ret = NoCall
    /\ book.Opf # None
    /\ \E order \in BookMapOrders(book) :
          ret' = Call("Normalize", << >>, Normalize(BookMetadata(book), order), NoErr)
    /\ UNCHANGED <<archive, pc, locals, book, streams>>

\* b.Opf.Metadata.Get(key)
CallGet ==
    /\ ret = NoCall
    /\ book.Opf # None
    /\ \E key \in KeyInputs, order \in BookMapOrders(book) :
          ret' = Call("Get", key, Get(BookMetadata(book), key, order), NoErr)
    /\ UNCHANGED <<archive, pc, locals, book, streams>>

NextMeta ==
    \/ CallMetadataValues
    \/ CallMetadataByKey
    \/ CallMetadataValue
    \/ CallDublinCoreHelper
    \/ CallAllMetadata
    \/ CallGetAll
    \/ CallNormalize
    \/ CallGet
    \/ TakeResult

SpecMeta == InitMeta /\ [][NextMeta]_vars

-----------------------------------------------------------------------------
(* The metadata of a book, read off its package document in document      *)
(* order, for comparison with what the accessors return                   *)

\* the children of the <metadata> element of book b, in document order
DocChildren(b) ==
    IF b.Opf = None THEN << >>
    ELSE FindNode(b.Opf[1].XmlNode, str_metadata)[1].XmlNodes

\* the subsequence of s at the indexes in I
Pick(s, I) == [k \in 1..Cardinality(I) |-> s[Ascending(I)[k]]]

\* the trimmed texts, in document order, of the children whose tag is k in
\* any spelling of upper and lower case
FieldTexts(b, k) ==
    LET kids == DocChildren(b)
        at == {i \in 1..Len(kids) : EqualFold(kids[i].Local, k)}
    IN  [j \in 1..Cardinality(at) |-> TrimSpace(XmlNodeText(kids[Ascending(at)[j]]))]

CanonicalKeys == Range(dublinCoreDeclared)

\* field k has a value: k is a canonical key and a child of that tag has text
HasValue(b, k) ==
    k \in CanonicalKeys /\ \E i \in 1..Len(FieldTexts(b, k)) : FieldTexts(b, k)[i] # << >>

\* field k is in the document, but without any text
PresentButEmpty(b, k) ==
    /\ k \in CanonicalKeys
    /\ FieldTexts(b, k) # << >>
    /\ \A i \in 1..Len(FieldTexts(b, k)) : FieldTexts(b, k)[i] = << >>

\* book b with every child of tag k taken out of its package document
WithoutField(b, k) ==
    LET kids == DocChildren(b)
    IN  MetaBook(Pick(kids, {i \in 1..Len(kids) : ~EqualFold(kids[i].Local, k)}))

ListAccessors == {"MetadataValues", "MetadataByKey"}
SingleAccessors == {"MetadataValue", "DublinCoreHelper"}

\* what accessor op returns on book b for key, the map visited in `order`
AccessorResult(op, b, key, order) ==
    IF op \in ListAccessors THEN MetadataValues(b, key, order)
    ELSE MetadataValue(b, key, order)

\* the call recorded in ret was made with a key that is not blank
KeyedCall == ret.op \in ListAccessors \cup SingleAccessors /\ TrimSpace(ret.arg) # << >>

\* C6 (as amended): called with a non-blank key, every metadata accessor
\* returns ErrMetadataUndefined for that key when the requested field has no
\* value, and never an empty string or an empty list with a nil error: a
\* call that succeeds returns a non-empty value.  A field that is present
\* but empty yields the very outcome of a field that is absent from the
\* document, that same ErrMetadataUndefined.
C6_UndefinedWhenNoValue ==
    KeyedCall =>
        LET k == ToLower(TrimSpace(ret.arg))
            absent == WithoutField(book, k)
        IN  /\ ~HasValue(book, k) =>
                  ret.err = Err("ErrMetadataUndefined", k) /\ ret.val = << >>
            /\ ret.err = NoErr =>
                  /\ ret.val # << >>
                  /\ ret.op \in ListAccessors =>
                        \A i \in 1..Len(ret.val) : ret.val[i] # << >>
            /\ ret.err # NoErr =>
                  ret.err = Err("ErrMetadataUndefined", k) /\ ret.val = << >>
            /\ PresentButEmpty(book, k) =>
                  \A order \in BookMapOrders(absent) :
                      [val |-> ret.val, err |-> ret.err]
                          = AccessorResult(ret.op, absent, ret.arg, order)

\* C6 witness: an accessor was asked for a field that is present but empty
C6_Witness ==
    /\ KeyedCall
    /\ PresentButEmpty(book, ToLower(TrimSpace(ret.arg)))
    /\ ret.err.kind = "ErrMetadataUndefined"

\* C6 (as claimed): every accessor returns ErrMetadataUndefined when the
\* field has no value, and the outcome for a field that is present but empty
\* differs from the outcome for a field that is absent.
C6_Original ==
    KeyedCall =>
        LET k == ToLower(TrimSpace(ret.arg))
            absent == WithoutField(book, k)
        IN  /\ ~HasValue(book, k) => ret.err.kind = "ErrMetadataUndefined"
            /\ PresentButEmpty(book, k) =>
                  \A order \in BookMapOrders(absent) :
                      [val |-> ret.val, err |-> ret.err]
                          # AccessorResult(ret.op, absent, ret.arg, order)

\* C7: for a canonical key, the single-value accessor succeeds exactly when
\* MetadataValues succeeds, then returns the first element of the list
\* MetadataValues returns, and fails with the same error otherwise.
C7_FirstOfValues ==
    ret.op \in SingleAccessors /\ ToLower(TrimSpace(ret.arg)) \in CanonicalKeys =>
        \A order \in BookMapOrders(book) :
            LET r == MetadataValues(book, ret.arg, order)
            IN  /\ ret.err = NoErr <=> r.err = NoErr
                /\ ret.err = NoErr => ret.val = r.val[1]
                /\ ret.err # NoErr => ret.err = r.err

\* the pairs [key, val] of the children at the indexes I, in document order
DocPairs(b, I, key(_), val(_)) ==
    LET kids == DocChildren(b)
    IN  [j \in 1..Cardinality(I) |->
            [key |-> key(kids[Ascending(I)[j]]), val |-> val(kids[Ascending(I)[j]])]]

DocText(c) == TrimSpace(XmlNodeText(c))
DocTag(c) == c.Local

\* C8: the Dublin Core view retains an entry exactly when its tag matches a
\* canonical name case-insensitively, and lists per retained tag the
\* trimmed non-empty texts of its entries in document order; Get(k) is that
\* list for the canonical key k.
C8_DublinCoreView ==
    LET kids == DocChildren(book)
        retained == {i \in 1..Len(kids) :
                        ToLower(kids[i].Local) \in CanonicalKeys /\ DocText(kids[i]) # << >>}
        view == GroupByKey(DocPairs(book, retained, DocTag, DocText))
    IN  /\ ret.op = "Normalize" => ret.val = view
        /\ ret.op = "Get" /\ ToLower(ret.arg) \in CanonicalKeys =>
              ret.val = MapGet(view, ToLower(ret.arg))

\* the value the extension view shows for a child: its text, else its
\* content attribute
DocValue(c) ==
    IF DocText(c) # << >> THEN DocText(c) ELSE MapGet(AttrMap(c.Attrs), str_content)

\* the key of a child: its tag, but for <meta> "meta:"+name when it has a
\* name attribute, else "meta:"+property when it has a property attribute
DocKey(c) ==
    IF c.Local # str_meta THEN c.Local
    ELSE IF str_name \in DOMAIN AttrMap(c.Attrs)
         THEN str_metaColon \o AttrMap(c.Attrs)[str_name]
         ELSE IF str_property \in DOMAIN AttrMap(c.Attrs)
              THEN str_metaColon \o AttrMap(c.Attrs)[str_property]
              ELSE c.Local

\* the children that show in the extension view
Shown(b) == {i \in 1..Len(DocChildren(b)) : DocValue(DocChildren(b)[i]) # << >>}

\* C9: GetAll files each entry under its tag, <meta> under "meta:"+name or
\* "meta:"+property, and lists per key the values in document order of the
\* entries, on every call, whatever namespaces the entries come from.
C9_FirstSeenOrder ==
    ret.op \in {"GetAll", "AllMetadata"} =>
        ret.val = GroupByKey(DocPairs(book, Shown(book), DocKey, DocValue))

\* all values of the map m, as a sequence (keys in any fixed order)
MapValues(m) ==
    LET keys == CHOOSE p \in Perms(DOMAIN m) : TRUE
    IN  Flat([i \in 1..Len(keys) |-> m[keys[i]]])

\* how often v occurs in the sequence s
Count(s, v) == Cardinality({i \in 1..Len(s) : s[i] = v})

\* C10: GetAll never emits an empty value and no key maps to an empty
\* list; its values are, with multiplicity, the texts of the entries that
\* have one and the non-empty content attributes of those that have none.
C10_NoEmptyValue ==
    ret.op \in {"GetAll", "AllMetadata"} =>
        LET kids == DocChildren(book)
            shown == [j \in 1..Cardinality(Shown(book)) |->
                         DocValue(kids[Ascending(Shown(book))[j]])]
            got == MapValues(ret.val)
        IN  /\ \A k \in DOMAIN ret.val :
                  /\ ret.val[k] # << >>
                  /\ \A i \in 1..Len(ret.val[k]) : ret.val[k][i] # << >>
            /\ Len(got) = Len(shown)
            /\ \A v \in Range(got) \cup Range(shown) : Count(got, v) = Count(shown, v)

\* C10 witness: GetAll on a document with one entry shown by its content
\* attribute and one entry skipped for having no value at all
C10_Witness ==
    /\ ret.op = "GetAll"
    /\ DOMAIN ret.val # {}
    /\ \E i, j \in 1..Len(DocChildren(book)) :
          /\ DocText(DocChildren(book)[i]) = << >>
          /\ DocValue(DocChildren(book)[i]) # << >>
          /\ DocValue(DocChildren(book)[j]) = << >>

-----------------------------------------------------------------------------
(* The archives the ReadBook specification ranges over *)

\* most <itemref> children of <spine>
MaxSpine == 2

\* the directory of the package document: "O", or the root of the archive
PkgDirs == {<<"O">>, << >>}

\* the path of the entry called name in directory dir
InDir(dir, name) == IF dir = << >> THEN name ELSE dir \o <<"/">> \o name

Elem(name, attrs, kids) == XmlNode(<< >>, name, attrs, << >>, kids)
TextElem(name, attrs, text) == XmlNode(<< >>, name, attrs, text, << >>)

\* an entry that opens and reads, holding a well-formed XML document
XmlFile(root) ==
    ZipFile(TRUE, TRUE, XmlBytes(<< >>, TRUE, root),
            HtmlRaw("DocumentNode", << >>, << >>, << >>))

\* a chapter: <html><head><title>T</title></head><body><p> H </p><img src="i"/></body></html>
ChapterHtml ==
    HtmlRaw("DocumentNode", << >>, << >>,
      << HtmlRaw("ElementNode", str_html, << >>,
           << HtmlRaw("ElementNode", str_head, << >>,
                << HtmlRaw("ElementNode", str_title, << >>,
                     << HtmlRaw("TextNode", <<"T">>, << >>, << >>) >>) >>),
              HtmlRaw("ElementNode", str_body, << >>,
                << HtmlRaw("ElementNode", str_p, << >>,
                     << HtmlRaw("TextNode", <<" ", "H", " ">>, << >>, << >>) >>),
                   HtmlRaw("ElementNode", str_img, <<Attr(str_src, <<"i">>)>>, << >>) >>) >>) >>)

ChapterFile(opens, reads) ==
    ZipFile(opens, reads, XmlBytes(<< >>, TRUE, Elem(str_html, << >>, << >>)), ChapterHtml)

\* META-INF/container.xml with the given <rootfile> elements
ContainerDoc(rootfiles) ==
    Elem(str_container, << >>, <<Elem(str_rootfiles, << >>, rootfiles)>>)

Rootfile(fullPath, mediaType) ==
    Elem(str_rootfile, <<Attr(str_fullPath, fullPath), Attr(str_mediaType, mediaType)>>, << >>)

\* a container that names the package document c.opf of directory dir, after
\* a rootfile without a path and one of a foreign media type
GoodContainer(dir) ==
    XmlFile(ContainerDoc(
        << Rootfile(<<" ">>, << >>),
           Rootfile(<<"x">>, str_textPlain),
           Rootfile(<<" ">> \o InDir(dir, <<".">>) \o <<"/">> \o p_opfName \o <<" ">>,
                    ToLower(str_opfMediaType)) >>))

\* the container entry, None when the archive has none
Containers(dir) ==
    { None,
      Some(ZipFile(FALSE, TRUE, GoodContainer(dir).xml, GoodContainer(dir).html)),
      Some(ZipFile(TRUE, TRUE, XmlBytes(str_usascii, TRUE, GoodContainer(dir).xml.root),
                   GoodContainer(dir).html)),
      Some(XmlFile(Elem(str_container, << >>, << >>))),
      Some(XmlFile(ContainerDoc(<< >>))),
      Some(XmlFile(ContainerDoc(<<Rootfile(<<"x">>, str_textPlain)>>))),
      Some(GoodContainer(dir)) }

Item(attrs) == Elem(str_item, attrs, << >>)
Itemref(attrs) == Elem(str_itemref, attrs, << >>)

\* how the package document declares its TOC document
TocDecls == {"none", "nav", "spine", "media"}

\* the manifest: id a twice (the second one padded), b by a roundabout
\* path, c without href, d whose file no archive holds, and the TOC item
ManifestOf(tocDecl) ==
    << Item(<<Attr(str_id, <<"a">>), Attr(str_href, <<"z">>)>>),
       Item(<<Attr(str_id, <<" ", "a">>), Attr(str_href, <<" ">> \o p_aName)>>),
       Item(<<Attr(str_id, <<"b">>), Attr(str_href, <<"s", "/", ".", ".", "/">> \o p_bName)>>),
       Item(<<Attr(str_id, <<"c">>)>>),
       Item(<<Attr(str_id, <<"d">>), Attr(str_href, <<"d">>)>>) >>
    \o (IF tocDecl = "nav"
        THEN <<Item(<<Attr(str_id, <<"n">>), Attr(str_href, p_navName),
                      Attr(str_properties, <<"x", " ">> \o <<"N", "a", "v">>)>>)>>
        ELSE IF tocDecl = "spine"
        THEN <<Item(<<Attr(str_id, <<"t">>), Attr(str_href, p_ncxName)>>)>>
        ELSE IF tocDecl = "media"
        THEN <<Item(<<Attr(str_id, <<"t">>), Attr(str_href, p_ncxName),
                      Attr(str_mediaType, str_ncxMediaType)>>)>>
        ELSE << >>)

\* the <itemref> elements a spine is made of
ItemrefChoices ==
    { Itemref(<<Attr(str_idref, <<"a">>)>>),
      Itemref(<<Attr(str_idref, <<" ", "b", " ">>)>>),
      Itemref(<<Attr(str_idref, <<"a">>), Attr(str_linear, <<"N", "o">>)>>),
      Itemref(<<Attr(str_idref, <<"c">>)>>),
      Itemref(<<Attr(str_idref, <<"d">>)>>) }

\* the package document
PackageOf(tocDecl, refs) ==
    XmlNode(ns_opf, str_package, << >>, << >>,
        << XmlNode(ns_opf, str_metadata, << >>, << >>,
                   <<XmlNode(ns_dc, str_title, << >>, <<"A">>, << >>)>>),
           XmlNode(ns_opf, str_manifest, << >>, << >>, ManifestOf(tocDecl)),
           XmlNode(ns_opf, str_spine,
                   IF tocDecl = "spine" THEN <<Attr(str_toc, <<"t">>)>> ELSE << >>,
                   << >>, refs) >>)

\* the package entry around a good document: missing, unreadable, in a
\* charset the decoder takes or refuses, not well formed, without <spine>
Packages(doc) ==
    { None,
      Some(ZipFile(TRUE, FALSE, XmlBytes(<< >>, TRUE, doc), XmlFile(doc).html)),
      Some(ZipFile(TRUE, TRUE, XmlBytes(str_usascii, TRUE, doc), XmlFile(doc).html)),
      Some(ZipFile(TRUE, TRUE, XmlBytes(str_latin, TRUE, doc), XmlFile(doc).html)),
      Some(ZipFile(TRUE, TRUE, XmlBytes(<< >>, FALSE, doc), XmlFile(doc).html)),
      Some(XmlFile([doc EXCEPT !.XmlNodes = SubSeq(doc.XmlNodes, 1, 2)])),
      Some(XmlFile(doc)) }

\* toc.ncx: a navPoint with a nested navPoint that has no content
NcxDoc ==
    Elem(str_ncx, << >>,
      << Elem(str_navMap, << >>,
           << Elem(str_navPoint, << >>,
                << Elem(str_navLabel, << >>, <<TextElem(str_text, << >>, <<"A">>)>>),
                   Elem(str_content, <<Attr(str_src, <<" ">> \o p_aName)>>, << >>),
                   Elem(str_navPoint, << >>,
                     << Elem(str_navLabel, << >>,
                             <<TextElem(str_text, << >>, <<"B">>)>>) >>) >>) >>) >>)

\* the Navigation Document: an entry with a nested entry that has no href
NavDoc ==
    Elem(str_html, << >>,
      << Elem(str_body, << >>,
           << Elem(str_nav, <<Attr(str_type, str_toc)>>,
                << Elem(str_ol, << >>,
                     << Elem(str_li, << >>,
                          << TextElem(str_a, <<Attr(str_href, p_aName)>>, <<"A">>),
                             Elem(str_ol, << >>,
                               << Elem(str_li, << >>,
                                    <<TextElem(str_a, << >>, <<"B">>)>>) >>) >>) >>) >>) >>) >>)

\* the TOC entry of the archive: missing, unreadable, without the element
\* the parser looks for, good
TocFiles(tocDecl) ==
    IF tocDecl = "none" THEN {None}
    ELSE IF tocDecl = "nav"
    THEN { None,
           Some(ZipFile(TRUE, FALSE, XmlFile(NavDoc).xml, XmlFile(NavDoc).html)),
           Some(XmlFile(Elem(str_html, << >>,
                   <<Elem(str_nav, <<Attr(str_type, str_toc)>>, << >>)>>))),
           Some(XmlFile(NavDoc)) }
    ELSE { None,
           Some(ZipFile(TRUE, FALSE, XmlFile(NcxDoc).xml, XmlFile(NcxDoc).html)),
           Some(XmlFile(Elem(str_ncx, << >>, << >>))),
           Some(XmlFile(NcxDoc)) }

\* the path of the TOC entry
TocName(tocDecl) == IF tocDecl = "nav" THEN p_navName ELSE p_ncxName

At(path, entry) == IF entry = None THEN {} ELSE {<<path, entry[1]>>}

\* the archive made of these entries; an entry that is None is left out
ArchiveOf(dir, container, package, tocDecl, toc, a, b) ==
    LET pairs == At(str_containerPath, container)
                   \cup At(InDir(dir, p_opfName), package)
                   \cup At(InDir(dir, TocName(tocDecl)), toc)
                   \cup At(InDir(dir, p_aName), a)
                   \cup At(InDir(dir, p_bName), b)
    IN  [opens |-> TRUE,
         files |-> [p \in {x[1] : x \in pairs} |-> (CHOOSE x \in pairs : x[1] = p)[2]]]

\* archives whose container or package document may be at fault
FrontArchives ==
    { ArchiveOf(dir, c, p, "media", t, Some(ChapterFile(TRUE, aReads)),
                Some(ChapterFile(TRUE, TRUE))) :
        dir \in PkgDirs, c \in UNION {Containers(d) : d \in PkgDirs},
        p \in Packages(PackageOf("media", <<Itemref(<<Attr(str_idref, <<"a">>)>>)>>)),
        t \in {None, Some(XmlFile(NcxDoc))}, aReads \in BOOLEAN }

\* archives with a good container and package document: any short spine,
\* any TOC declaration, TOC and chapter entries good or at fault
BackArchives ==
    { ArchiveOf(<<"O">>, Some(GoodContainer(<<"O">>)),
                Some(XmlFile(PackageOf(x[1], refs))), x[1], x[2],
                Some(ChapterFile(TRUE, aReads)), Some(ChapterFile(bOpens, TRUE))) :
        x \in UNION {{<<d, t>> : t \in TocFiles(d)} : d \in TocDecls},
        refs \in SeqsUpTo(ItemrefChoices, MaxSpine),
        aReads \in BOOLEAN, bOpens \in BOOLEAN }

Archives == {NoArchive} \cup FrontArchives \cup BackArchives

-----------------------------------------------------------------------------
(* Specification SpecRead: ReadBook on any of these archives *)

InitRead ==
    /\ streams = NoStreams
    /\ archive \in Archives
    /\ pc = "open"
    /\ locals = NoLocals
    /\ book = NewBook
    /\ ret = NoCall

SpecRead == InitRead /\ [][NextRead]_vars

-----------------------------------------------------------------------------
(* The archive described by its documents, for comparison with what        *)
(* ReadBook returns                                                        *)

Present(p) == p \in DOMAIN archive.files
Reads(p) == archive.files[p].opens /\ archive.files[p].reads
Doc(p) == archive.files[p].xml.root

\* the entry at p is read and decodes as XML, by a decoder that knows the
\* charsets cs besides UTF-8
Decodes(p, cs) ==
    /\ Reads(p)
    /\ archive.files[p].xml.wellFormed
    /\ \/ archive.files[p].xml.charset = << >>
       \/ ToLower(archive.files[p].xml.charset) \in {str_utf8} \cup cs

\* the attributes of the children called name of the first element called
\* section of document root; no children when there is no such element
ChildAttrs(root, section, name) ==
    LET found == FindNode(root, section)
        kids == found[1].XmlNodes
    IN  IF found = None THEN << >>
        ELSE [k \in 1..Cardinality({i \in 1..Len(kids) : EqualFold(kids[i].Local, name)}) |->
                AttrMap(kids[Ascending({i \in 1..Len(kids) :
                                           EqualFold(kids[i].Local, name)})[k]].Attrs)]

\* the package-document paths the container declares: full-path of each
\* <rootfile> that has one and is of a package media type or of none
DeclaredPaths ==
    LET rf == ChildAttrs(Doc(str_containerPath), str_rootfiles, str_rootfile)
        mt(i) == ToLower(TrimSpace(MapGet(rf[i], str_mediaType)))
    IN  Pick([i \in 1..Len(rf) |-> TrimSpace(MapGet(rf[i], str_fullPath))],
             {i \in 1..Len(rf) :
                /\ TrimSpace(MapGet(rf[i], str_fullPath)) # << >>
                /\ mt(i) \in {<< >>, ToLower(str_opfMediaType), str_epubMediaType}})

ContainerMissing == ~Present(str_containerPath)

PathUnresolved == ~Decodes(str_containerPath, {}) \/ DeclaredPaths = << >>

\* the path of the package document
PkgPath == Clean(DeclaredPaths[1])

PkgMissing(p) == ~Present(p)

PkgMalformed(p) ==
    \/ ~Decodes(p, {str_usascii})
    \/ \E section \in {str_metadata, str_manifest, str_spine} :
          FindNode(Doc(p), section) = None

\* the archive opens and its container and package document are in order
PkgUsable ==
    /\ archive.opens
    /\ ~ContainerMissing
    /\ ~PathUnresolved
    /\ ~PkgMissing(PkgPath)
    /\ ~PkgMalformed(PkgPath)

\* the idrefs of the linear <itemref> elements of the package document at
\* p, in document order
LinearIdrefs(p) ==
    LET refs == ChildAttrs(Doc(p), str_spine, str_itemref)
    IN  Pick([i \in 1..Len(refs) |-> TrimSpace(MapGet(refs[i], str_idref))],
             {i \in 1..Len(refs) :
                /\ TrimSpace(MapGet(refs[i], str_idref)) # << >>
                /\ ~EqualFold(MapGet(refs[i], str_linear), str_no)})

\* the archive path of manifest id `id`: the href of the last <item> of
\* that id that has one, taken from the directory of the package document
Resolve(p, id) ==
    LET items == ChildAttrs(Doc(p), str_manifest, str_item)
        hits == {i \in 1..Len(items) :
                    /\ TrimSpace(MapGet(items[i], str_id)) = id
                    /\ TrimSpace(MapGet(items[i], str_href)) # << >>}
    IN  IF hits = {} THEN None
        ELSE Some(Clean(InDir(BaseDir(p), TrimSpace(items[Max(hits)][str_href]))))

\* the linear idrefs that resolve to an entry of the archive, each with the
\* path of that entry
ChapterEntries(p) ==
    LET ids == LinearIdrefs(p)
        paths == [i \in 1..Len(ids) |-> Resolve(p, ids[i])]
        there == {i \in 1..Len(ids) : paths[i] # None /\ Present(paths[i][1])}
    IN  Pick([i \in 1..Len(ids) |-> <<ids[i], paths[i]>>], there)

\* the chapter entries that fail to open or to decode
FailingChapters(entries) ==
    {i \in 1..Len(entries) : ~Reads(entries[i][2][1])}

ChapterFailure(p) == FailingChapters(ChapterEntries(p)) # {}

\* what FindTOCFile returns for the package document at p
TocDeclared(p) == FindTOCFile(ParseOpf(archive.files[p].xml).opf[1], p)

\* the archive path ReadBook looks the TOC document `toc` up at
TocPath(p, toc) == Join(BaseDir(p), TocRef(toc.tocFile, BaseDir(p)))

\* a TOC document is declared and cannot be read as one
TocFailure(p) ==
    LET toc == TocDeclared(p)
        at == TocPath(p, toc)
        nav == FindTocNav(Doc(at))
    IN  /\ toc.tocType # "UNKNOWN"
        /\ \/ ~Present(at)
           \/ ~Decodes(at, {})
           \/ /\ toc.tocType = "EPUB3"
              /\ (nav = None \/ FindNode(nav[1], str_ol) = None)
           \/ /\ toc.tocType = "EPUB2"
              /\ FindNode(Doc(at), str_navMap) = None

\* the artifact a failure of ReadBook names
FailureOf(kind) ==
    IF kind = "nil" THEN "none"
    ELSE IF kind = "open archive" THEN "archive"
    ELSE IF kind = "container.xml not found" THEN "container missing"
    ELSE IF kind \in {"read container", "parse container", "container rootfiles not found",
                      "no rootfile entries in container", "no root file found"}
         THEN "package path unresolved"
    ELSE IF kind = "opf file not found" THEN "package missing"
    ELSE IF kind \in {"read opf", "parse opf", "metadata not found", "manifest not found",
                      "spine not found"}
         THEN "package malformed"
    ELSE IF kind = "parse chapter" THEN "chapter"
    ELSE IF kind = "parse toc" THEN "toc"
    ELSE "other"

\* the first unmet artifact, the last two being looked at in the order
\* `tail`
FirstUnmet(tail) ==
    IF ContainerMissing THEN "container missing"
    ELSE IF PathUnresolved THEN "package path unresolved"
    ELSE LET p == PkgPath
         IN  IF PkgMissing(p) THEN "package missing"
             ELSE IF PkgMalformed(p) THEN "package malformed"
             ELSE LET unmet == {i \in 1..2 : \/ tail[i] = "chapter" /\ ChapterFailure(p)
                                             \/ tail[i] = "toc" /\ TocFailure(p)}
                  IN  IF unmet = {} THEN "none" ELSE tail[Min(unmet)]

\* ReadBook has returned from an archive that opened
Returned == pc = "done" /\ ret.op = "ReadBook" /\ archive.opens

\* C1 (as amended): ReadBook returns either a Book or the failure of the
\* first unmet required artifact in this order: container descriptor
\* missing, package-document path unresolved, package-document entry
\* missing, package-document malformed, TOC parse failure, chapter entry
\* failure.  When several hold, the failure returned is the earliest in this
\* order, so a declared TOC that fails to parse is reported in preference
\* to a chapter that fails to decode.
C1_FirstUnmetArtifact ==
    Returned =>
        /\ FailureOf(ret.err.kind) = FirstUnmet(<<"toc", "chapter">>)
        /\ ret.val # None <=> ret.err = NoErr

\* C1 witness: ReadBook has returned from an archive with a chapter that
\* fails to decode and a declared TOC that fails to parse
C1_Witness ==
    /\ Returned
    /\ ret.err.kind = "parse toc"
    /\ PkgUsable
    /\ ChapterFailure(PkgPath)
    /\ TocFailure(PkgPath)

\* C1 (as claimed): the order ends with chapter entry failure, then TOC
\* parse failure, so a chapter that fails to decode is reported in
\* preference to a declared TOC that fails to parse.
C1_Original ==
    Returned =>
        /\ FailureOf(ret.err.kind) = FirstUnmet(<<"chapter", "toc">>)
        /\ ret.val # None <=> ret.err = NoErr

\* C2: an id of the spine that has no href or whose href names no archive
\* entry is skipped without error; an id whose entry fails to open or
\* decode aborts the read with an error and no Book; on success the ids (and
\* paths) of Book.Chapters are exactly, in order and with duplicates, the
\* linear spine idrefs that resolve to an archive entry.
C2_ChaptersFollowSpine ==
    Returned /\ PkgUsable =>
        LET entries == ChapterEntries(PkgPath)
            failing == FailingChapters(entries)
        IN  /\ ret.err = NoErr =>
                  [i \in 1..Len(ret.val[1].Chapters) |->
                      <<ret.val[1].Chapters[i].ID, Some(ret.val[1].Chapters[i].Path)>>]
                  = entries
            /\ failing # {} => ret.val = None /\ ret.err # NoErr
            /\ ret.err.kind = "parse chapter" =>
                  /\ failing # {}
                  /\ ret.err.detail = entries[Min(failing)][1]

\* C2 witness: a Book was returned whose chapters are fewer than the linear
\* idrefs of the spine, one idref having been skipped
C2_Witness ==
    /\ Returned
    /\ ret.err = NoErr
    /\ Len(ret.val[1].Chapters) = 1
    /\ PkgUsable
    /\ Len(LinearIdrefs(PkgPath)) = 2

\* C3: when FindTOCFile returns the unknown format, ReadBook never fails
\* because of the TOC (it fails only if a chapter does) and the Book it
\* returns has no TOC, FlattenTOC yielding no entries; when FindTOCFile
\* returns EPUB2 or EPUB3 and ParseTOC fails, ReadBook fails with that
\* failure and returns no Book.
C3_TocAbsenceIsNoError ==
    Returned /\ PkgUsable =>
        LET p == PkgPath
            toc == TocDeclared(p)
        IN  /\ toc.tocType = "UNKNOWN" =>
                  /\ ret.err.kind # "parse toc"
                  /\ ret.err # NoErr => ChapterFailure(p)
                  /\ ret.err = NoErr =>
                        ret.val[1].TOC = None /\ FlattenTOC(ret.val[1]) = << >>
            /\ /\ toc.tocType \in {"EPUB2", "EPUB3"}
               /\ ParseTOC(toc.tocType, TocRef(toc.tocFile, BaseDir(p)),
                           BaseDir(p), archive.files).err # NoErr
               => ret.val = None /\ ret.err.kind = "parse toc"

\* C3 witness: a Book with chapters and no TOC was returned for a package
\* document that declares no TOC
C3_Witness ==
    /\ Returned
    /\ ret.err = NoErr
    /\ ret.val[1].TOC = None
    /\ ret.val[1].Chapters # << >>
    /\ PkgUsable
    /\ TocDeclared(PkgPath).tocType = "UNKNOWN"

-----------------------------------------------------------------------------
(* SpecSpine: ExtractChapterIDs over the spines of package documents       *)

\* most <itemref> children of a <spine>
MaxRefs == 3

\* <itemref> elements: plain, padded idref, linear "no" in three spellings,
\* linear "yes", linear padded so that it is not "no", blank idref, no idref
SpineRefs ==
    { Itemref(<<Attr(str_idref, <<"a">>)>>),
      Itemref(<<Attr(str_idref, <<" ", "b", " ">>)>>),
      Itemref(<<Attr(str_idref, <<"a">>), Attr(str_linear, str_no)>>),
      Itemref(<<Attr(str_idref, <<"c">>), Attr(str_linear, <<"N", "O">>)>>),
      Itemref(<<Attr(str_idref, <<"d">>), Attr(str_linear, <<"y", "e", "s">>)>>),
      Itemref(<<Attr(str_idref, <<"e">>), Attr(str_linear, <<" ", "n", "o">>)>>),
      Itemref(<<Attr(str_idref, <<" ">>)>>),
      Itemref(<<Attr(str_linear, <<"n", "O">>)>>) }

\* a package document whose <spine> has the children refs
SpineDoc(refs) ==
    XmlNode(ns_opf, str_package, << >>, << >>,
            << XmlNode(ns_opf, str_metadata, << >>, << >>, << >>),
               XmlNode(ns_opf, str_manifest, << >>, << >>, << >>),
               XmlNode(ns_opf, str_spine, << >>, << >>, refs) >>)

\* the book ReadBook leaves of such a package document, spine only
SpineBook(refs) ==
    Book(None, ParseOpf(XmlBytes(<< >>, TRUE, SpineDoc(refs))).opf, None, << >>)

\* a book whose Opf has no Spine yet (an Opf before ParseSpine)
NoSpineBook ==
    Book(None, Some(Opf(SpineDoc(<< >>), None, None, None)), None, << >>)

InitSpine ==
    /\ streams = NoStreams
    /\ book \in {NoSpineBook} \cup {SpineBook(refs) : refs \in SeqsUpTo(SpineRefs, MaxRefs)}
    /\ ret = NoCall
    /\ archive = NoArchive
    /\ pc = "done"
    /\ locals = NoLocals

\* b.Opf.Spine.ExtractChapterIDs()
CallExtractChapterIDs ==
    /\ ret = NoCall
    /\ ret' = Call("ExtractChapterIDs", << >>, ExtractChapterIDs(book.Opf[1].Spine), NoErr)
    /\ UNCHANGED <<archive, pc, locals, book, streams>>

NextSpine == CallExtractChapterIDs \/ TakeResult

SpecSpine == InitSpine /\ [][NextSpine]_vars

\* the <itemref> children of the <spine> of book b, in document order
DocItemrefs(b) ==
    IF b.Opf[1].Spine = None THEN << >>
    ELSE FindNode(b.Opf[1].XmlNode, str_spine)[1].XmlNodes

\* the value of attribute name of element e as Some(value), None without it
DocAttr(e, name) ==
    LET at == {i \in 1..Len(e.Attrs) : e.Attrs[i].Local = name}
    IN  IF at = {} THEN None ELSE Some(e.Attrs[Max(at)].Value)

\* itemref e is marked linear="no", in any letter case
NonLinear(e) ==
    /\ DocAttr(e, str_linear) # None
    /\ ToLower(DocAttr(e, str_linear)[1]) = str_no

\* the trimmed idref of itemref e, empty without the attribute
DocIdref(e) ==
    IF DocAttr(e, str_idref) = None THEN << >> ELSE TrimSpace(DocAttr(e, str_idref)[1])

RECURSIVE ReadingOrder(_)
\* the reading order of the itemrefs refs
ReadingOrder(refs) ==
    IF refs = << >> THEN << >>
    ELSE IF NonLinear(Head(refs)) \/ DocIdref(Head(refs)) = << >>
         THEN ReadingOrder(Tail(refs))
         ELSE <<DocIdref(Head(refs))>> \o ReadingOrder(Tail(refs))

\* C11: ExtractChapterIDs returns, in document order, the trimmed non-empty
\* idref of every itemref that is not marked linear="no" (in any letter
\* case), an itemref without a linear attribute counting as linear; the
\* idref of an itemref marked linear="no" is never contributed by it.
C11_LinearIdrefsInOrder ==
    ret # NoCall /\ ret.op = "ExtractChapterIDs" =>
        /\ ret.val = ReadingOrder(DocItemrefs(book))
        /\ Len(ret.val) =
              Cardinality({i \in 1..Len(DocItemrefs(book)) :
                              /\ ~NonLinear(DocItemrefs(book)[i])
                              /\ DocIdref(DocItemrefs(book)[i]) # << >>})

\* C11 witness: a spine with an itemref marked linear="NO" between two
\* linear ones, the second of padded idref, gave the two linear idrefs
C11_Witness ==
    /\ ret # NoCall /\ ret.op = "ExtractChapterIDs"
    /\ Len(DocItemrefs(book)) = 3
    /\ NonLinear(DocItemrefs(book)[2])
    /\ DocAttr(DocItemrefs(book)[2], str_linear) # Some(str_no)
    /\ ret.val = << <<"a">>, <<"b">> >>

-----------------------------------------------------------------------------
(* SpecTocDir: ReadBook on archives whose TOC document lies in the         *)
(* directory of the package document or in another one                     *)

\* the directory of the TOC document, as its manifest href spells it
TocDirs == { << >>, <<"s">> }

\* link targets written in the TOC document
TocLinks == { p_aName, <<".", ".", "/">> \o p_aName, <<"t", "/", ".", "/">> \o p_aName }

\* a package document with chapter a and a TOC document declared the way
\* tocDecl says, at href tocHref
TocPackage(tocDecl, tocHref) ==
    XmlNode(ns_opf, str_package, << >>, << >>,
        << XmlNode(ns_opf, str_metadata, << >>, << >>, << >>),
           XmlNode(ns_opf, str_manifest, << >>, << >>,
               << Item(<<Attr(str_id, <<"a">>), Attr(str_href, p_aName)>>),
                  Item(<<Attr(str_id, <<"t">>), Attr(str_href, tocHref)>>
                       \o (IF tocDecl = "nav" THEN <<Attr(str_properties, str_nav)>>
                           ELSE IF tocDecl = "media"
                           THEN <<Attr(str_mediaType, str_ncxMediaType)>>
                           ELSE << >>)) >>),
           XmlNode(ns_opf, str_spine,
                   IF tocDecl = "spine" THEN <<Attr(str_toc, <<"t">>)>> ELSE << >>,
                   << >>, <<Itemref(<<Attr(str_idref, <<"a">>)>>)>>) >>)

\* a TOC document of one entry titled A that links to `link`: a Navigation
\* Document when tocDecl is "nav", an NCX otherwise
TocDocOf(tocDecl, link) ==
    IF tocDecl = "nav"
    THEN Elem(str_html, << >>,
           << Elem(str_body, << >>,
                << Elem(str_nav, <<Attr(str_type, str_toc)>>,
                     << Elem(str_ol, << >>,
                          << Elem(str_li, << >>,
                               << TextElem(str_a, <<Attr(str_href, link)>>, <<"A">>) >>)
                          >>) >>) >>) >>)
    ELSE Elem(str_ncx, << >>,
           << Elem(str_navMap, << >>,
                << Elem(str_navPoint, << >>,
                     << Elem(str_navLabel, << >>, <<TextElem(str_text, << >>, <<"A">>)>>),
                        Elem(str_content, <<Attr(str_src, link)>>, << >>) >>) >>) >>)

\* the archive of these documents: package document in dir, TOC document in
\* tocDir below it
TocDirArchive(dir, tocDecl, tocDir, link) ==
    LET pairs == { <<str_containerPath, GoodContainer(dir)>>,
                   <<InDir(dir, p_opfName),
                     XmlFile(TocPackage(tocDecl, InDir(tocDir, TocName(tocDecl))))>>,
                   <<InDir(dir, InDir(tocDir, TocName(tocDecl))),
                     XmlFile(TocDocOf(tocDecl, link))>>,
                   <<InDir(dir, p_aName), ChapterFile(TRUE, TRUE)>> }
    IN  [opens |-> TRUE,
         files |-> [p \in {x[1] : x \in pairs} |-> (CHOOSE x \in pairs : x[1] = p)[2]]]

TocDirArchives ==
    { TocDirArchive(dir, tocDecl, tocDir, link) :
        dir \in PkgDirs, tocDecl \in TocDecls \ {"none"},
        tocDir \in TocDirs, link \in TocLinks }

InitTocDir ==
    /\ streams = NoStreams
    /\ archive \in TocDirArchives
    /\ pc = "open"
    /\ locals = NoLocals
    /\ book = NewBook
    /\ ret = NoCall

SpecTocDir == InitTocDir /\ [][NextRead]_vars

RECURSIVE DocLinks(_)
\* the link targets of a TOC document, in document order: the href of each
\* <a> and the src of each <content>
DocLinks(n) ==
    (IF n.Local = str_a /\ DocAttr(n, str_href) # None
     THEN <<DocAttr(n, str_href)[1]>>
     ELSE IF n.Local = str_content /\ DocAttr(n, str_src) # None
     THEN <<DocAttr(n, str_src)[1]>>
     ELSE << >>)
    \o Flat([i \in 1..Len(n.XmlNodes) |-> DocLinks(n.XmlNodes[i])])

\* the archive path of the TOC document the package document at p declares
TocEntryPath(p) == TocDeclared(p).tocFile

\* C12: every href of a TOC entry of the Book ReadBook returns is the
\* entry's link target resolved against the directory of the TOC document
\* itself, for the NCX and the Navigation Document alike.
C12_HrefsRelativeToTocFile ==
    Returned /\ ret.err = NoErr /\ ret.val[1].TOC # None =>
        LET at == TocEntryPath(PkgPath)
            links == DocLinks(Doc(at))
            entries == FlattenTOC(ret.val[1])
        IN  /\ Len(entries) = Len(links)
            /\ \A i \in 1..Len(entries) :
                  entries[i].Href = Clean(InDir(BaseDir(at), links[i]))

-----------------------------------------------------------------------------
(* SpecManifest: FindTOCFile and HrefLookup over the manifests and spine   *)
(* attributes of package documents                                         *)

\* most <item> children of a <manifest>
MaxItems == 2

\* <item> elements: a chapter, the same id padded with another href, a
\* roundabout href, no href, the nav property among other tokens, a
\* property that only contains "nav", the item the spine names, the NCX
\* media type in capitals, no id
ManifestItems ==
    { Item(<<Attr(str_id, <<"a">>), Attr(str_href, p_aName)>>),
      Item(<<Attr(str_id, <<" ", "a">>), Attr(str_href, <<" ">> \o p_bName \o <<" ">>)>>),
      Item(<<Attr(str_id, <<"b">>), Attr(str_href, <<"s", "/", ".", ".", "/">> \o p_bName)>>),
      Item(<<Attr(str_id, <<"c">>)>>),
      Item(<<Attr(str_id, <<"n">>), Attr(str_href, p_navName),
             Attr(str_properties, <<"x", " ">> \o <<"N", "a", "v">>)>>),
      Item(<<Attr(str_id, <<"m">>), Attr(str_href, <<"s", "/">> \o p_navName),
             Attr(str_properties, str_nav \o <<"s">>)>>),
      Item(<<Attr(str_id, <<"t">>), Attr(str_href, p_ncxName)>>),
      Item(<<Attr(str_id, <<"u">>), Attr(str_href, <<"u">>),
             Attr(str_mediaType, <<"A">> \o Tail(str_ncxMediaType))>>),
      Item(<<Attr(str_href, <<"e">>)>>) }

\* the attributes of the <spine>: none, toc naming item t, toc naming no item
SpineAttrs ==
    { << >>, <<Attr(str_toc, <<"t">>)>>, <<Attr(str_toc, <<"z">>)>> }

\* a package document with these manifest items and spine attributes
ManifestDoc(items, spineAttrs) ==
    XmlNode(ns_opf, str_package, << >>, << >>,
            << XmlNode(ns_opf, str_metadata, << >>, << >>, << >>),
               XmlNode(ns_opf, str_manifest, << >>, << >>, items),
               XmlNode(ns_opf, str_spine, spineAttrs, << >>, << >>) >>)

\* the book ReadBook leaves of such a package document
ManifestBook(items, spineAttrs) ==
    Book(None, ParseOpf(XmlBytes(<< >>, TRUE, ManifestDoc(items, spineAttrs))).opf,
         None, << >>)

\* the paths of the package document the caller passes
OpfPaths == { p_opfName, <<"O", "/">> \o p_opfName }

InitManifest ==
    /\ streams = NoStreams
    /\ book \in {NoSpineBook}
                \cup {ManifestBook(items, sa) :
                        items \in SeqsUpTo(ManifestItems, MaxItems), sa \in SpineAttrs}
    /\ ret = NoCall
    /\ archive = NoArchive
    /\ pc = "done"
    /\ locals = NoLocals

\* b.Opf.FindTOCFile(opfPath)
CallFindTOCFile ==
    /\ ret = NoCall
    /\ \E opfPath \in OpfPaths :
          ret' = Call("FindTOCFile", opfPath, FindTOCFile(book.Opf[1], opfPath), NoErr)
    /\ UNCHANGED <<archive, pc, locals, book, streams>>

\* b.Opf.Manifest.HrefLookup(opfPath)
CallHrefLookup ==
    /\ ret = NoCall
    /\ \E opfPath \in OpfPaths :
          ret' = Call("HrefLookup", opfPath, HrefLookup(book.Opf[1].Manifest, opfPath), NoErr)
    /\ UNCHANGED <<archive, pc, locals, book, streams>>

NextManifest == CallFindTOCFile \/ CallHrefLookup \/ TakeResult

SpecManifest == InitManifest /\ [][NextManifest]_vars

\* the <item> children of the <manifest> of book b, in document order
DocItems(b) ==
    IF b.Opf[1].Manifest = None THEN << >>
    ELSE FindNode(b.Opf[1].XmlNode, str_manifest)[1].XmlNodes

\* the attributes of the <spine> of book b
DocSpine(b) ==
    IF b.Opf[1].Spine = None THEN Elem(str_spine, << >>, << >>)
    ELSE FindNode(b.Opf[1].XmlNode, str_spine)[1]

\* the value of attribute name of element e, empty without it
DocField(e, name) == IF DocAttr(e, name) = None THEN << >> ELSE DocAttr(e, name)[1]

\* "nav", in any letter case, is one of the space-separated tokens of props
HasNavToken(props) ==
    \E i \in 1..Len(props) :
        /\ i + 2 <= Len(props)
        /\ ToLower(SubSeq(props, i, i + 2)) = str_nav
        /\ i = 1 \/ IsSpace(props[i - 1])
        /\ i + 2 = Len(props) \/ IsSpace(props[i + 3])

\* path href taken from the directory of the package document at opfPath,
\* "." and ".." collapsed
FromPkgDir(opfPath, href) == Clean(InDir(BaseDir(opfPath), href))

\* what the three rules give for book b read from opfPath
TocRules(b, opfPath) ==
    LET items == DocItems(b)
        navs == {i \in 1..Len(items) :
                    /\ DocAttr(items[i], str_properties) # None
                    /\ HasNavToken(DocField(items[i], str_properties))}
        named == {i \in 1..Len(items) :
                    /\ DocAttr(DocSpine(b), str_toc) # None
                    /\ DocField(items[i], str_id) = DocField(DocSpine(b), str_toc)}
        ncx == {i \in 1..Len(items) :
                    ToLower(DocField(items[i], str_mediaType)) = str_ncxMediaType}
        at(i) == FromPkgDir(opfPath, DocField(items[i], str_href))
    IN  IF navs # {} THEN <<1, "EPUB3", at(Min(navs))>>
        ELSE IF named # {} THEN <<2, "EPUB2", at(Min(named))>>
        ELSE IF ncx # {} THEN <<3, "EPUB2", at(Min(ncx))>>
        ELSE <<0, "UNKNOWN", << >> >>

\* C13: FindTOCFile applies three rules in strict priority order: (1) a
\* manifest item one of whose space-separated properties is "nav" in any
\* letter case gives EPUB3 and that item's href taken from the package
\* document's directory, even when the spine has a toc attribute; (2)
\* otherwise a spine toc attribute equal to the id of a manifest item gives
\* EPUB2 and that item's resolved href; (3) otherwise a manifest item whose
\* media-type is the NCX media type in any letter case gives EPUB2 and its
\* resolved href; when no rule matches the result is the unknown format
\* with an empty path.
C13_TocRulesInPriorityOrder ==
    ret # NoCall /\ ret.op = "FindTOCFile" =>
        LET rule == TocRules(book, ret.arg)
        IN  /\ ret.val.tocType = rule[2]
            /\ ret.val.tocFile = rule[3]

\* C13 witness: FindTOCFile returned EPUB3 and the nav item's path below
\* directory O for a manifest whose second item carries the nav property
\* and whose first item is the one the spine's toc attribute names
C13_Witness ==
    /\ ret # NoCall /\ ret.op = "FindTOCFile"
    /\ ret.val = [tocType |-> "EPUB3", tocFile |-> <<"O", "/">> \o p_navName]
    /\ Len(DocItems(book)) = 2
    /\ DocAttr(DocSpine(book), str_toc) = Some(DocField(DocItems(book)[1], str_id))
    /\ HasNavToken(DocField(DocItems(book)[2], str_properties))

\* the items of book b that HrefLookup is to take up: trimmed id and
\* trimmed href both non-empty
Listed(b) ==
    {i \in 1..Len(DocItems(b)) :
        /\ TrimSpace(DocField(DocItems(b)[i], str_id)) # << >>
        /\ TrimSpace(DocField(DocItems(b)[i], str_href)) # << >>}

\* C20: HrefLookup maps exactly the trimmed ids of the manifest items whose
\* trimmed id and trimmed href are both non-empty; each id maps to the
\* trimmed href of the last such item of that id in document order, taken
\* from the directory of the package document (as it is when the package
\* document is at the archive root) with "." and ".." segments collapsed.
C20_HrefLookupLastWins ==
    ret # NoCall /\ ret.op = "HrefLookup" =>
        LET items == DocItems(book)
            id(i) == TrimSpace(DocField(items[i], str_id))
            listed == Listed(book)
        IN  /\ DOMAIN ret.val = {id(i) : i \in listed}
            /\ \A k \in DOMAIN ret.val :
                  LET last == Max({i \in listed : id(i) = k})
                      href == TrimSpace(DocField(items[last], str_href))
                  IN  /\ ret.val[k] = FromPkgDir(ret.arg, href)
                      /\ BaseDir(ret.arg) = << >> => ret.val[k] = Clean(href)

\* C20 witness: two items of the same trimmed id and different hrefs, the
\* package document in directory O; the id maps to the second item's href
C20_Witness ==
    /\ ret # NoCall /\ ret.op = "HrefLookup"
    /\ ret.arg = <<"O", "/">> \o p_opfName
    /\ Listed(book) = {1, 2}
    /\ DOMAIN ret.val = {<<"a">>}
    /\ DocField(DocItems(book)[1], str_href) = p_aName
    /\ ret.val[<<"a">>] = <<"O", "/">> \o p_bName

-----------------------------------------------------------------------------
(* SpecContainer: FindOpfFile over the containers ParseContainer builds    *)

\* most children of the <rootfiles> element
MaxRootfiles == 3

\* children of <rootfiles>: the package media type, a padded path without
\* media type, a foreign media type, a blank path, the archive media type
\* capitalised and padded, no full-path, <RootFile> without media-type, an
\* element that is no rootfile
RootfileChoices ==
    { Rootfile(<<"O", "/">> \o p_opfName, str_opfMediaType),
      Rootfile(<<" ">> \o p_opfName \o <<" ">>, << >>),
      Rootfile(<<"x">>, str_textPlain),
      Rootfile(<<" ">>, str_opfMediaType),
      Rootfile(<<"e">>, <<" ", "A">> \o Tail(str_epubMediaType) \o <<" ">>),
      Elem(str_rootfile, <<Attr(str_mediaType, str_opfMediaType)>>, << >>),
      Elem(<<"R">> \o Tail(str_rootfile), <<Attr(str_fullPath, <<"r">>)>>, << >>),
      Elem(str_item, <<Attr(str_fullPath, <<"i">>)>>, << >>) }

\* an archive that holds only the container descriptor
ContainerArchive(rootfiles) ==
    [opens |-> TRUE,
     files |-> [p \in {str_containerPath} |-> XmlFile(ContainerDoc(rootfiles))]]

\* the book as ReadBook has it once the container has been parsed
ContainerBook(a) ==
    Book(ParseContainer(a.files[str_containerPath].xml).container, None, None, << >>)

InitContainer ==
    /\ streams = NoStreams
    /\ archive \in {ContainerArchive(rf) : rf \in SeqsUpTo(RootfileChoices, MaxRootfiles)}
    /\ book = ContainerBook(archive)
    /\ ret = NoCall
    /\ pc = "done"
    /\ locals = NoLocals

\* b.Container.FindOpfFile()
CallFindOpfFile ==
    /\ ret = NoCall
    /\ book.Container # None
    /\ LET r == FindOpfFile(book.Container[1])
       IN  ret' = Call("FindOpfFile", << >>, r.path, r.err)
    /\ UNCHANGED <<archive, pc, locals, book, streams>>

NextContainer == CallFindOpfFile \/ TakeResult

SpecContainer == InitContainer /\ [][NextContainer]_vars

\* the <rootfile> records of the container descriptor, in container order
DocRootfiles ==
    LET kids == FindNode(Doc(str_containerPath), str_rootfiles)[1].XmlNodes
    IN  Pick(kids, {i \in 1..Len(kids) : ToLower(kids[i].Local) = str_rootfile})

\* record e qualifies: its full-path is not blank and its media-type is
\* the package-document media type, the archive media type, or blank
Qualifies(e) ==
    /\ TrimSpace(DocField(e, str_fullPath)) # << >>
    /\ ToLower(TrimSpace(DocField(e, str_mediaType)))
          \in {<< >>, ToLower(str_opfMediaType), ToLower(str_epubMediaType)}

\* C14: FindOpfFile returns the full-path (surrounding white space
\* removed) of the first rootfile record, in container order, whose
\* full-path is non-empty and whose media-type is the package-document
\* media type, the archive media type (in any letter case), or empty;
\* records that fail either condition are passed over; when no record
\* qualifies it fails with the no-root-file error and returns no path.
C14_FirstQualifyingRootfile ==
    ret # NoCall /\ ret.op = "FindOpfFile" =>
        LET rfs == DocRootfiles
            ok == {i \in 1..Len(rfs) : Qualifies(rfs[i])}
        IN  IF ok = {}
            THEN ret.err = Err("no root file found", << >>) /\ ret.val = << >>
            ELSE /\ ret.err = NoErr
                 /\ ret.val = TrimSpace(DocField(rfs[Min(ok)], str_fullPath))

\* C14 witness: of three records the first has a foreign media type and
\* the other two qualify with different paths; the second one's path was
\* returned
C14_Witness ==
    /\ ret # NoCall /\ ret.op = "FindOpfFile"
    /\ Len(DocRootfiles) = 3
    /\ ~Qualifies(DocRootfiles[1])
    /\ DocField(DocRootfiles[1], str_fullPath) # << >>
    /\ Qualifies(DocRootfiles[2]) /\ Qualifies(DocRootfiles[3])
    /\ ret.val = TrimSpace(DocField(DocRootfiles[2], str_fullPath))
    /\ ret.val # TrimSpace(DocField(DocRootfiles[3], str_fullPath))

-----------------------------------------------------------------------------
(* SpecTwice: ReadBook called again on the archive it has just read, the   *)
(* caller still holding what the first call returned                       *)

\* archives with a Navigation Document that may be at fault and two
\* chapters, the first of which may not read and the second may not open
ChapterFaultArchives ==
    { ArchiveOf(<<"O">>, Some(GoodContainer(<<"O">>)),
                Some(XmlFile(PackageOf("nav", << Itemref(<<Attr(str_idref, <<"a">>)>>),
                                                 Itemref(<<Attr(str_idref, <<"b">>)>>) >>))),
                "nav", t, Some(ChapterFile(TRUE, aReads)), Some(ChapterFile(bOpens, TRUE))) :
        t \in TocFiles("nav"), aReads \in BOOLEAN, bOpens \in BOOLEAN }

\* archives read twice: those of SpecTocDir, which all yield a Book with a
\* TOC and a chapter, those whose container or package may be at fault,
\* and those whose TOC document or chapters may be
TwiceArchives == TocDirArchives \cup FrontArchives \cup ChapterFaultArchives

InitTwice ==
    /\ streams = NoStreams
    /\ archive \in TwiceArchives
    /\ pc = "open"
    /\ locals = NoLocals
    /\ book = Book(None, None, None, << >>)
    /\ ret = NoCall

\* the caller calls ReadBook(epubPath) once more; ret keeps the results of
\* the call before until the new call returns
ReadAgain ==
    /\ pc = "done"
    /\ ret.op = "ReadBook"
    /\ pc' = "open"
    /\ locals' = NoLocals
    /\ UNCHANGED <<archive, book, ret, streams>>

NextTwice == NextRead \/ ReadAgain

SpecTwice == InitTwice /\ [][NextTwice]_vars

\* a call of ReadBook returns in this step, the results of the call before
\* it being in ret
ReturnsAgain == pc # "done" /\ pc' = "done" /\ ret.op = "ReadBook"

C16_StreamsReleased ==
    /\ streams.open \subseteq {zr}
    /\ pc \in {"open", "done"} => streams.open = {}
    /\ ~streams.twice

\* C16 witness: ReadBook has returned the failure of a chapter whose entry
\* opened and could not be read to the end, and no stream is open
C16_Witness ==
    /\ pc = "done"
    /\ ret.op = "ReadBook" /\ ret.err.kind = "parse chapter"
    /\ \E p \in DOMAIN archive.files : archive.files[p].opens /\ ~archive.files[p].reads
    /\ streams = NoStreams

-----------------------------------------------------------------------------
(* SpecBook: every accessor of Book and TOC on a book that has metadata,   *)
(* a TOC and chapters.  The chapters are Chapter values as ParseChapter    *)
(* builds them: paragraphs are texts that are not blank.                   *)

\* most chapters of a book
MaxChapters == 2

sP == <<"P">>
sQ == <<"Q", "\n", "R">>

\* chapters: two of the same ID, one without paragraphs, one of another ID
ChapterValues ==
    { Chapter(<<"a">>, p_aName, << >>, <<sP>>, << >>),
      Chapter(<<"a">>, p_bName, <<"T">>, <<sQ, sP>>, <<"i">>),
      Chapter(<<"b">>, p_bName, << >>, << >>, << >>),
      Chapter(<<"c">>, p_aName, << >>, <<sQ>>, << >>) }

\* package documents: none, a title in two namespaces, one creator
BookOpfs ==
    { None,
      MetaBook(<< XmlNode(ns_dc, str_title, << >>, <<"A">>, << >>),
                  XmlNode(<< >>, str_title, << >>, <<"B">>, << >>) >>).Opf,
      MetaBook(<< XmlNode(ns_dc, str_creator, << >>, <<"C">>, << >>) >>).Opf }

\* TOC trees: none, an entry with a nested entry
BookTocs ==
    { None,
      Some(TocRoot(<<TocEntry(sA, <<"a">>, <<TocEntry(sB, <<"d", "/", "a">>, << >>)>>)>>)) }

\* chapter IDs and indexes the caller asks for
IdInputs == { <<"a">>, <<"b">>, <<"A">>, << >> }
IndexInputs == (0 - 1)..(MaxChapters + 1)

InitBook ==
    /\ streams = NoStreams
    /\ book \in { Book(None, opf, toc, chapters) :
                    opf \in BookOpfs, toc \in BookTocs,
                    chapters \in SeqsUpTo(ChapterValues, MaxChapters) }
    /\ ret = NoCall
    /\ archive = NoArchive
    /\ pc = "done"
    /\ locals = NoLocals

\* the receivers of a call: the book, or a nil *Book
Receivers == { None, Some(book) }

\* the argument of a call on receiver bp
Arg(bp, x) == [nil |-> bp = None, x |-> x]

\* b.ChapterCount()
CallChapterCount ==
    /\ ret = NoCall
    /\ \E bp \in Receivers :
          ret' = Call("ChapterCount", Arg(bp, << >>), ChapterCount(bp), NoErr)
    /\ UNCHANGED <<archive, pc, locals, book, streams>>

\* b.ChapterByID(id)
CallChapterByID ==
    /\ ret = NoCall
    /\ \E bp \in Receivers, id \in IdInputs :
          LET r == ChapterByID(bp, id)
          IN  ret' = Call("ChapterByID", Arg(bp, id), r.val, r.err)
    /\ UNCHANGED <<archive, pc, locals, book, streams>>

\* b.ChapterByIndex(index)
CallChapterByIndex ==
    /\ ret = NoCall
    /\ \E bp \in Receivers, index \in IndexInputs :
          LET r == ChapterByIndex(bp, index)
          IN  ret' = Call("ChapterByIndex", Arg(bp, index), r.val, r.err)
    /\ UNCHANGED <<archive, pc, locals, book, streams>>

\* b.ChapterTextByID(id)
CallChapterTextByID ==
    /\ ret = NoCall
    /\ \E bp \in Receivers, id \in IdInputs :
          LET r == ChapterTextByID(bp, id)
          IN  ret' = Call("ChapterTextByID", Arg(bp, id), r.val, r.err)
    /\ UNCHANGED <<archive, pc, locals, book, streams>>

\* b.ChapterTextByIndex(index)
CallChapterTextByIndex ==
    /\ ret = NoCall
    /\ \E bp \in Receivers, index \in IndexInputs :
          LET r == ChapterTextByIndex(bp, index)
          IN  ret' = Call("ChapterTextByIndex", Arg(bp, index), r.val, r.err)
    /\ UNCHANGED <<archive, pc, locals, book, streams>>

\* b.AllChaptersText()
CallAllChaptersText ==
    /\ ret = NoCall
    /\ \E bp \in Receivers :
          ret' = Call("AllChaptersText", Arg(bp, << >>), AllChaptersText(bp), NoErr)
    /\ UNCHANGED <<archive, pc, locals, book, streams>>

\* the accessor call c made once more on the book with the same argument;
\* `order` is the order in which this call visits the metadata map
Again(c, order) ==
    LET bp == IF c.arg.nil THEN None ELSE Some(book)
        of(r) == Call(c.op, c.arg, r.val, r.err)
    IN  CASE c.op = "MetadataValues"     -> of(MetadataValues(book, c.arg, order))
          [] c.op = "MetadataByKey"      -> of(MetadataByKey(book, c.arg, order))
          [] c.op = "MetadataValue"      -> of(MetadataValue(book, c.arg, order))
          [] c.op = "DublinCoreHelper"   -> of(DublinCoreHelper(book, c.arg, order))
          [] c.op = "AllMetadata"        ->
                Call(c.op, c.arg, AllMetadata(book, order), NoErr)
          [] c.op = "Flatten"            ->
                Call(c.op, c.arg, Flatten(book.TOC[1]), NoErr)
          [] c.op = "FlattenTOC"         -> Call(c.op, c.arg, FlattenTOC(book), NoErr)
          [] c.op = "FindByHref"         ->
                Call(c.op, c.arg, FindByHref(book.TOC[1], c.arg), NoErr)
          [] c.op = "ChapterCount"       -> Call(c.op, c.arg, ChapterCount(bp), NoErr)
          [] c.op = "ChapterByID"        -> of(ChapterByID(bp, c.arg.x))
          [] c.op = "ChapterByIndex"     -> of(ChapterByIndex(bp, c.arg.x))
          [] c.op = "ChapterTextByID"    -> of(ChapterTextByID(bp, c.arg.x))
          [] c.op = "ChapterTextByIndex" -> of(ChapterTextByIndex(bp, c.arg.x))
          [] c.op = "AllChaptersText"    ->
                Call(c.op, c.arg, AllChaptersText(bp), NoErr)

\* the caller, holding the result of an accessor, calls the same accessor
\* again with the same argument
RepeatCall ==
    /\ ret # NoCall
    /\ \E order \in BookMapOrders(book) : ret' = Again(ret, order)
    /\ UNCHANGED <<archive, pc, locals, book, streams>>

NextBook ==
    \/ CallChapterCount
    \/ CallChapterByID
    \/ CallChapterByIndex
    \/ CallChapterTextByID
    \/ CallChapterTextByIndex
    \/ CallAllChaptersText
    \/ CallMetadataValues
    \/ CallMetadataByKey
    \/ CallMetadataValue
    \/ CallDublinCoreHelper
    \/ CallAllMetadata
    \/ CallFlatten
    \/ CallFlattenTOC
    \/ CallFindByHref
    \/ RepeatCall
    \/ TakeResult

SpecBook == InitBook /\ [][NextBook]_vars

\* the call recorded in ret is one of the chapter lookups `ops`
Looked(ops) == ret # NoCall /\ ret.op \in ops

\* the positions (from 1) of the chapters of the book whose ID is id
WithId(id) == {i \in 1..Len(book.Chapters) : book.Chapters[i].ID = id}

\* the paragraphs of chapter c joined by blank lines
Joined(c) == JoinWith(c.Paragraphs, str_blankLine)

\* C18: chapter lookup fails with ErrChapterNotFound exactly when nothing
\* matches.  ChapterByIndex(i) returns the chapter at position i when
\* 0 <= i < ChapterCount() and ErrChapterNotFound for every other i and for
\* a nil Book; ChapterByID(id) returns the first chapter in reading order
\* whose ID equals id and ErrChapterNotFound when none does;
\* ChapterTextByID and ChapterTextByIndex fail in exactly the same cases
\* and otherwise return the text of that chapter.
C18_ChapterNotFoundIffNoMatch ==
    /\ Looked({"ChapterByIndex", "ChapterTextByIndex"}) =>
          LET i == ret.arg.x
              inRange == ~ret.arg.nil /\ 0 <= i /\ i < Len(book.Chapters)
          IN  /\ inRange <=> ret.err = NoErr
              /\ ~inRange => ret.err.kind = "ErrChapterNotFound"
              /\ ret.op = "ChapterByIndex" =>
                    ret.val = IF inRange THEN Some(i + 1) ELSE None
              /\ ret.op = "ChapterTextByIndex" /\ inRange =>
                    ret.val = Joined(book.Chapters[i + 1])
    /\ Looked({"ChapterByID", "ChapterTextByID"}) =>
          LET hits == IF ret.arg.nil THEN {} ELSE WithId(ret.arg.x)
          IN  /\ hits # {} <=> ret.err = NoErr
              /\ hits = {} => ret.err.kind = "ErrChapterNotFound"
              /\ ret.op = "ChapterByID" =>
                    ret.val = IF hits # {} THEN Some(Min(hits)) ELSE None
              /\ ret.op = "ChapterTextByID" /\ hits # {} =>
                    ret.val = Joined(book.Chapters[Min(hits)])
    /\ Looked({"ChapterCount"}) =>
          ret.val = IF ret.arg.nil THEN 0 ELSE Len(book.Chapters)

\* C18 witness: ChapterTextByID was asked for an ID that two chapters of
\* different text carry and returned the text of the first one
C18_Witness ==
    /\ Looked({"ChapterTextByID"})
    /\ ret.err = NoErr
    /\ WithId(ret.arg.x) = {1, 2}
    /\ Joined(book.Chapters[1]) # Joined(book.Chapters[2])
    /\ ret.val = Joined(book.Chapters[1])

\* every paragraph of the book: chapter order, then paragraph order
AllParagraphs == Flat([i \in 1..Len(book.Chapters) |-> book.Chapters[i].Paragraphs])

\* text t ends with e
EndsWith(t, e) == Len(e) <= Len(t) /\ SubSeq(t, Len(t) - Len(e) + 1, Len(t)) = e

\* C19: AllChaptersText equals the paragraphs of all chapters, in chapter
\* order and then paragraph order, joined by a blank line: a chapter with
\* no paragraphs contributes nothing, and the result neither starts nor
\* ends with the separator nor holds two separators in a row.
C19_AllChaptersTextJoinsParagraphs ==
    Looked({"AllChaptersText"}) /\ ~ret.arg.nil =>
        /\ ret.val = JoinWith(AllParagraphs, str_blankLine)
        /\ ~HasPrefix(ret.val, str_blankLine)
        /\ ~EndsWith(ret.val, str_blankLine)
        /\ ~Contains(ret.val, str_blankLine \o str_blankLine)

\* C19 witness: the text of a book whose first chapter has no paragraphs
\* and whose second has two
C19_Witness ==
    /\ Looked({"AllChaptersText"}) /\ ~ret.arg.nil
    /\ Len(book.Chapters) = 2
    /\ book.Chapters[1].Paragraphs = << >>
    /\ Len(book.Chapters[2].Paragraphs) = 2
    /\ ret.val = book.Chapters[2].Paragraphs[1] \o str_blankLine
                    \o book.Chapters[2].Paragraphs[2]

\* C17: a Book is read-only after ReadBook returns: whatever accessors are
\* called, its container, package document, TOC and chapters are unchanged,
\* and repeating an accessor with the same argument returns an equal
\* result.
C17_ReadOnlyAndRepeatable ==
    [][/\ book' = book
       /\ ret # NoCall /\ ret' # NoCall => ret' = ret]_vars

-----------------------------------------------------------------------------
(* SpecCharset: the four XML documents of an archive, each declaring a     *)
(* charset of its own, each decoded by the parser that ReadBook hands it to *)

\* the encoding an XML declaration names: none, UTF-8 and US-ASCII in two
\* spellings each, and a charset that is neither
Charsets ==
    { << >>, str_utf8, <<"U", "T", "F", "-", "8">>,
      str_usascii, <<"U", "s", "-", "A", "S", "C", "I", "I">>, str_latin }

\* the entries of the four document kinds
DocKinds == {str_containerPath, p_opfName, p_ncxName, p_navName}

\* the well-formed document of each kind
KindDoc(kind) ==
    IF kind = str_containerPath THEN GoodContainer(<< >>).xml.root
    ELSE IF kind = p_opfName THEN PackageOf("media", << >>)
    ELSE IF kind = p_ncxName THEN NcxDoc
    ELSE NavDoc

\* the archive whose four documents declare the charsets cs[kind]
CharsetArchive(cs) ==
    [opens |-> TRUE,
     files |-> [k \in DocKinds |->
                  ZipFile(TRUE, TRUE, XmlBytes(cs[k], TRUE, KindDoc(k)),
                          HtmlRaw("DocumentNode", << >>, << >>, << >>))]]

InitCharset ==
    /\ streams = NoStreams
    /\ archive \in {CharsetArchive(cs) : cs \in [DocKinds -> Charsets]}
    /\ book = NewBook
    /\ ret = NoCall
    /\ pc = "done"
    /\ locals = NoLocals

\* the directories a TOC document is parsed against
BaseInputs == {<< >>, <<"O">>, <<"O", "E", "B", "P", "S">>}

\* the argument of a parser call: the entry parsed and the base directory
DocArg(doc, base) == [doc |-> doc, base |-> base]

\* ParseContainer(containerData)
CallParseContainer ==
    /\ ret = NoCall
    /\ str_containerPath \in DOMAIN archive.files
    /\ LET r == ParseContainer(archive.files[str_containerPath].xml)
       IN  ret' = Call("ParseContainer", DocArg(str_containerPath, << >>),
                       r.container, r.err)
    /\ UNCHANGED <<archive, pc, locals, book, streams>>

\* ParseOpf(opfContent)
CallParseOpf ==
    /\ ret = NoCall
    /\ p_opfName \in DOMAIN archive.files
    /\ LET r == ParseOpf(archive.files[p_opfName].xml)
       IN  ret' = Call("ParseOpf", DocArg(p_opfName, << >>), r.opf, r.err)
    /\ UNCHANGED <<archive, pc, locals, book, streams>>

\* parseNCX(content, basePath)
CallParseNCX ==
    /\ ret = NoCall
    /\ p_ncxName \in DOMAIN archive.files
    /\ \E base \in BaseInputs :
          LET r == parseNCX(archive.files[p_ncxName].xml, base)
          IN  ret' = Call("parseNCX", DocArg(p_ncxName, base), r.entries, r.err)
    /\ UNCHANGED <<archive, pc, locals, book, streams>>

\* parseNavXML(content, basePath)
CallParseNavXML ==
    /\ ret = NoCall
    /\ p_navName \in DOMAIN archive.files
    /\ \E base \in BaseInputs :
          LET r == parseNavXML(archive.files[p_navName].xml, base)
          IN  ret' = Call("parseNavXML", DocArg(p_navName, base), r.entries, r.err)
    /\ UNCHANGED <<archive, pc, locals, book, streams>>

NextCharset ==
    \/ CallParseContainer
    \/ CallParseOpf
    \/ CallParseNCX
    \/ CallParseNavXML
    \/ TakeResult

SpecCharset == InitCharset /\ [][NextCharset]_vars

\* the charset a document declares is UTF-8 or US-ASCII in any letter case,
\* or it declares none
AcceptedCharset(cs) == ToLower(cs) \in {<< >>, str_utf8, str_usascii}

\* C21: every XML decode of the pipeline (container descriptor, package
\* document, NCX, Navigation Document) accepts a document that declares
\* UTF-8 or US-ASCII, in any letter case, or no encoding, and fails with an
\* error on any other declared charset; the accepted charsets are the same
\* for the four kinds of document.
C21_SameCharsetsEverywhere ==
    ret # NoCall =>
        (ret.err = NoErr <=> AcceptedCharset(archive.files[ret.arg.doc].xml.charset))

-----------------------------------------------------------------------------
(* SpecSections: the three derivations of a package document, called in    *)
(* any order on the Opf that holds its decoded tree                        *)

\* how a section element occurs in the package document: not at all, as a
\* child of <package>, or capitalised inside a wrapper element
SectionForms == {"absent", "child", "nested"}

\* the capital of the first letter of name
ToUpperFirst(name) ==
    UpperCase[CHOOSE i \in 1..Len(LowerCase) : LowerCase[i] = name[1]]

\* the element of section `name` in form `form`, with children kids
SectionElem(name, form, attrs, kids) ==
    IF form = "absent" THEN << >>
    ELSE IF form = "child" THEN <<XmlNode(ns_opf, name, attrs, << >>, kids)>>
    ELSE <<Elem(<<"w">>, << >>,
                <<XmlNode(ns_opf, <<ToUpperFirst(name)>> \o Tail(name), attrs, << >>, kids)>>)>>

\* the package document whose sections have the forms f
SectionsDoc(f) ==
    XmlNode(ns_opf, str_package, << >>, << >>,
        SectionElem(str_metadata, f.metadata, << >>,
                    <<XmlNode(ns_dc, str_title, << >>, <<"A">>, << >>)>>)
        \o SectionElem(str_manifest, f.manifest, << >>,
                    <<Item(<<Attr(str_id, <<"a">>), Attr(str_href, p_aName)>>)>>)
        \o SectionElem(str_spine, f.spine, <<Attr(str_toc, <<"t">>)>>,
                    <<Itemref(<<Attr(str_idref, <<"a">>)>>)>>))

\* the archive that holds this package document, and nothing else
SectionsArchive(f) ==
    [opens |-> TRUE, files |-> [k \in {p_opfName} |-> XmlFile(SectionsDoc(f))]]

\* opf := &Opf{XmlNode: &root}
FreshOpf(bytes) == Opf(Decode(bytes, TRUE).root[1], None, None, None)

InitSections ==
    /\ streams = NoStreams
    /\ archive \in {SectionsArchive(f) :
                      f \in [metadata : SectionForms, manifest : SectionForms,
                             spine : SectionForms]}
    /\ book = Book(None, Some(FreshOpf(archive.files[p_opfName].xml)), None, << >>)
    /\ ret = NoCall
    /\ pc = "done"
    /\ locals = NoLocals

\* opf.ParseMetadata()
CallParseMetadata ==
    /\ ret = NoCall
    /\ LET r == ParseMetadata(book.Opf[1])
       IN  /\ book' = [book EXCEPT !.Opf = Some(r.opf)]
           /\ ret' = Call("ParseMetadata", << >>, << >>, r.err)
    /\ UNCHANGED <<archive, pc, locals, streams>>

\* opf.ParseManifest()
CallParseManifest ==
    /\ ret = NoCall
    /\ LET r == ParseManifest(book.Opf[1])
       IN  /\ book' = [book EXCEPT !.Opf = Some(r.opf)]
           /\ ret' = Call("ParseManifest", << >>, << >>, r.err)
    /\ UNCHANGED <<archive, pc, locals, streams>>

\* opf.ParseSpine()
CallParseSpine ==
    /\ ret = NoCall
    /\ LET r == ParseSpine(book.Opf[1])
       IN  /\ book' = [book EXCEPT !.Opf = Some(r.opf)]
           /\ ret' = Call("ParseSpine", << >>, << >>, r.err)
    /\ UNCHANGED <<archive, pc, locals, streams>>

NextSections ==
    \/ CallParseMetadata
    \/ CallParseManifest
    \/ CallParseSpine
    \/ CallParseOpf
    \/ TakeResult

SpecSections == InitSections /\ [][NextSections]_vars

RECURSIVE ElementNames(_)
\* the lower-cased names of the elements of tree n
ElementNames(n) ==
    {ToLower(n.Local)} \cup UNION {ElementNames(n.XmlNodes[i]) : i \in 1..Len(n.XmlNodes)}

\* the derivations and the field of the Opf each one fills
Derivations ==
    [ParseMetadata |-> [section |-> str_metadata, field |-> "Metadata"],
     ParseManifest |-> [section |-> str_manifest, field |-> "Manifest"],
     ParseSpine    |-> [section |-> str_spine,    field |-> "Spine"]]

\* what derivation d gives on an Opf that holds tree root and nothing else
Alone(d, root) ==
    LET o == Opf(root, None, None, None)
    IN  IF d = "ParseMetadata" THEN ParseMetadata(o).opf
        ELSE IF d = "ParseManifest" THEN ParseManifest(o).opf
        ELSE ParseSpine(o).opf

\* this step is a call of one of the three derivations
Derives == ret = NoCall /\ ret' # NoCall /\ ret'.op \in DOMAIN Derivations

-----------------------------------------------------------------------------
(* SpecNodeText: NodeText of both tree variants on an element with mixed   *)
(* content.  The markup is written as an html.Node tree, which keeps text  *)
(* and child elements in the order of the document.                        *)

\* most children of the element
MaxKids == 3

MarkupText(t) == HtmlRaw("TextNode", t, << >>, << >>)
MarkupElem(name, kids) == HtmlRaw("ElementNode", name, << >>, kids)

\* children: two texts, a blank text, an element with text, an empty one
MarkupKids ==
    { MarkupText(<<"a">>), MarkupText(<<" ", "d", " ">>), MarkupText(<<" ">>),
      MarkupElem(<<"b">>, <<MarkupText(<<"c">>)>>), MarkupElem(<<"i">>, << >>) }

\* no two texts side by side: a parser makes one text node of them
NoTextRun(kids) ==
    \A i \in 1..(Len(kids) - 1) :
        ~(kids[i].Type = "TextNode" /\ kids[i + 1].Type = "TextNode")

\* the <p> elements the calls are made on
Markups ==
    {MarkupElem(str_p, kids) : kids \in {k \in SeqsUpTo(MarkupKids, MaxKids) : NoTextRun(k)}}

RECURSIVE Unmarshal(_)
\* xml.Decoder.Decode into an XmlNode: Content (",chardata") collects the
\* character data directly inside the element, piece after piece; XmlNodes
\* (",any") the child elements
Unmarshal(m) ==
    LET texts == {i \in 1..Len(m.Kids) : m.Kids[i].Type = "TextNode"}
        elems == {i \in 1..Len(m.Kids) : m.Kids[i].Type = "ElementNode"}
    IN  XmlNode(<< >>, m.Data, m.Attr,
                Flat([k \in 1..Cardinality(texts) |-> m.Kids[Ascending(texts)[k]].Data]),
                [k \in 1..Cardinality(elems) |-> Unmarshal(m.Kids[Ascending(elems)[k]])])

\* the entry whose bytes are the markup m
MarkupFile(m) == ZipFile(TRUE, TRUE, XmlBytes(<< >>, TRUE, Unmarshal(m)), m)

InitNodeText ==
    /\ streams = NoStreams
    /\ archive \in {[opens |-> TRUE, files |-> [k \in {p_aName} |-> MarkupFile(m)]] :
                      m \in Markups}
    /\ book = NewBook
    /\ ret = NoCall
    /\ pc = "done"
    /\ locals = NoLocals

\* xn.NodeText() on the decoded XML tree
CallXmlNodeText ==
    /\ ret = NoCall
    /\ ret' = Call("XmlNode.NodeText", p_aName,
                   XmlNodeText(archive.files[p_aName].xml.root), NoErr)
    /\ UNCHANGED <<archive, pc, locals, book, streams>>

\* hn.NodeText() on the converted HTML element
CallHtmlNodeText ==
    /\ ret = NoCall
    /\ ret' = Call("HtmlNode.NodeText", p_aName,
                   HtmlNodeText(convertHTMLNode(archive.files[p_aName].html)), NoErr)
    /\ UNCHANGED <<archive, pc, locals, book, streams>>

NextNodeText == CallXmlNodeText \/ CallHtmlNodeText \/ TakeResult

SpecNodeText == InitNodeText /\ [][NextNodeText]_vars

RECURSIVE TextsInOrder(_)
\* the text nodes of markup m in document order, each trimmed, blank ones
\* left out
TextsInOrder(m) ==
    IF m.Type = "TextNode"
    THEN IF TrimSpace(m.Data) = << >> THEN << >> ELSE <<TrimSpace(m.Data)>>
    ELSE Flat([i \in 1..Len(m.Kids) |-> TextsInOrder(m.Kids[i])])

\* C23: for both tree variants, NodeText of a node returns the contents of
\* all text nodes of its subtree, in document order, each trimmed, joined
\* by single spaces: in an element with mixed content the text of a child
\* element stands between the two pieces of the parent's own text.
C23_NodeTextInDocumentOrder ==
    ret # NoCall =>
        ret.val = JoinWith(TextsInOrder(archive.files[ret.arg].html), <<" ">>)

-----------------------------------------------------------------------------
(* SpecChapter: ParseChapter on a chapter document, as ReadBook calls it   *)

\* children of <body>: <p>H</p>, <div><p>W</p></div>, <span><p> a </p></span>,
\* text that stands in the body itself, a <p> that holds only white space
BodyKids ==
    { MarkupElem(str_p, <<MarkupText(<<"H">>)>>),
      MarkupElem(str_div, <<MarkupElem(str_p, <<MarkupText(<<"W">>)>>)>>),
      MarkupElem(<<"s", "p", "a", "n">>,
                 <<MarkupElem(str_p, <<MarkupText(<<" ", "a", " ">>)>>)>>),
      MarkupText(<<"x">>),
      MarkupElem(str_p, <<MarkupText(<<" ">>)>>) }

\* what html.Parse returns for <html><body>kids</body></html>: a document
\* node above the <html> element
ChapterDoc(kids) ==
    HtmlRaw("DocumentNode", << >>, << >>,
            <<MarkupElem(str_html, <<MarkupElem(str_body, kids)>>)>>)

\* the chapter entry of that document
ChapterEntry(kids) ==
    ZipFile(TRUE, TRUE, XmlBytes(<< >>, TRUE, Elem(str_html, << >>, << >>)),
            ChapterDoc(kids))

InitChapter ==
    /\ streams = NoStreams
    /\ archive \in {[opens |-> TRUE, files |-> [k \in {p_aName} |-> ChapterEntry(kids)]] :
                      kids \in {k \in SeqsUpTo(BodyKids, MaxKids) : NoTextRun(k)}}
    /\ book = NewBook
    /\ ret = NoCall
    /\ pc = "done"
    /\ locals = NoLocals

\* ParseChapter(id, href, chapFile)
CallParseChapter ==
    /\ ret = NoCall
    /\ \E id \in {<<"a">>, <<"b">>} :
          LET r == ParseChapter(id, p_aName, archive.files[p_aName])
          IN  ret' = Call("ParseChapter", DocArg(p_aName, id), r.chapter, r.err)
    /\ UNCHANGED <<archive, pc, locals, book, streams>>

NextChapter == CallParseChapter \/ TakeResult

SpecChapter == InitChapter /\ [][NextChapter]_vars

\* the <body> element of the chapter document doc
BodyOf(doc) == doc.Kids[1].Kids[1]

RECURSIVE ParagraphsBelow(_)
\* the paragraphs below markup m, in document order: a <p> or <div> child
\* gives the text of its whole subtree, once, when that text is not empty;
\* every other child element is searched in the same way; text that is a
\* child itself gives nothing
ParagraphsBelow(m) ==
    Flat([i \in 1..Len(m.Kids) |->
            LET c == m.Kids[i]
                text == JoinWith(TextsInOrder(c), <<" ">>)
            IN  IF c.Type # "ElementNode" THEN << >>
                ELSE IF c.Data \in {str_p, str_div}
                     THEN (IF text = << >> THEN << >> ELSE <<text>>)
                     ELSE ParagraphsBelow(c)])

\* C24: chapter paragraph extraction consumes each p or div once: walking
\* the body in document order, the outermost p or div on each path yields
\* one paragraph, its full-subtree text, when that text is not empty, and
\* is not descended into; every other element is recursed into; so the
\* paragraphs of the chapter are exactly these texts, in document order,
\* none of them empty, and text without a p or div above it is in none.
C24_ParagraphsConsumedOnce ==
    ret # NoCall /\ ret.op = "ParseChapter" =>
        /\ ret.err = NoErr
        /\ ret.val[1].Paragraphs = ParagraphsBelow(BodyOf(archive.files[ret.arg.doc].html))

-----------------------------------------------------------------------------
(* SpecNav: a TOC document parsed against a base directory, the entries    *)
(* stored as the TOC of the book, and entries looked up by href            *)

\* most entries of one level of the TOC document
MaxPoints == 2

\* "OEBPS"
str_oebps == <<"O", "E", "B", "P", "S">>
\* "Chapter 1"
str_chapter1 == <<"C", "h", "a", "p", "t", "e", "r", " ", "1">>
\* "ch1.xhtml"
str_ch1 == <<"c", "h", "1", ".", "x", "h", "t", "m", "l">>

\* a navPoint: label (when there is one), src (when there is one), nested
\* navPoints
NavPoint(label, src, nested) ==
    Elem(str_navPoint, << >>,
         (IF label = None THEN << >>
          ELSE <<Elem(str_navLabel, << >>, <<TextElem(str_text, << >>, label[1])>>)>>)
         \o (IF src = None THEN << >>
             ELSE <<Elem(str_content, <<Attr(str_src, src[1])>>, << >>)>>)
         \o nested)

\* children of <navMap>: a point with a padded src, a point without
\* content, a point without label around a nested point, a point with a
\* roundabout src around a nested point, a point whose label is blank, the
\* point of the scenario, an element that is no navPoint
NavPoints ==
    { NavPoint(Some(sA), Some(<<" ">> \o p_aName), << >>),
      NavPoint(Some(sB), None, << >>),
      NavPoint(None, Some(p_bName), <<NavPoint(Some(<<"C">>), Some(p_bName), << >>)>>),
      NavPoint(Some(sA), Some(<<"s", "/", ".", ".", "/">> \o p_aName),
               <<NavPoint(Some(<<"C">>), Some(p_bName), << >>)>>),
      NavPoint(Some(<<" ">>), Some(p_aName), << >>),
      NavPoint(Some(str_chapter1), Some(str_ch1), << >>),
      Elem(<<"n", "a", "v", "I", "n", "f", "o">>, << >>, << >>) }

\* NCX documents: without <navMap>, and with each short list of children
NcxDocs ==
    {Elem(str_ncx, << >>, <<Elem(str_head, << >>, << >>)>>)}
    \cup {Elem(str_ncx, << >>, <<Elem(str_navMap, << >>, pts)>>) :
            pts \in SeqsUpTo(NavPoints, MaxPoints)}

\* the archive that holds the TOC document doc at name
TocArchive(name, doc) == [opens |-> TRUE, files |-> [k \in {name} |-> XmlFile(doc)]]

\* book.TOC = &TOC{Children: entries}, once the TOC document has parsed
StoreTOC ==
    /\ ret # NoCall
    /\ ret.op \in {"parseNCX", "parseNavXML"}
    /\ ret.err = NoErr
    /\ book' = [book EXCEPT !.TOC = Some(TocRoot(ret.val))]
    /\ UNCHANGED <<archive, pc, locals, ret, streams>>

\* the src of navPoint n as Some(value), None when it has no content src
PointSrc(n) ==
    LET cs == {j \in 1..Len(n.XmlNodes) :
                  n.XmlNodes[j].Local = str_content
                  /\ DocAttr(n.XmlNodes[j], str_src) # None}
    IN  IF cs = {} THEN None ELSE DocAttr(n.XmlNodes[Max(cs)], str_src)

\* the trimmed text of the navLabel of navPoint n, empty without one
PointLabel(n) ==
    LET ls == {j \in 1..Len(n.XmlNodes) : n.XmlNodes[j].Local = str_navLabel}
    IN  IF ls = {} THEN << >> ELSE DocText(n.XmlNodes[Max(ls)])

\* the navPoint children of nodes that carry a label, in document order
LabelledPoints(nodes) ==
    Pick(nodes, {i \in 1..Len(nodes) :
                    nodes[i].Local = str_navPoint /\ PointLabel(nodes[i]) # << >>})

\* link target `target` resolved against directory base and normalized
Resolved(base, target) == Clean(InDir(base, target))

RECURSIVE NcxAgrees(_, _, _)
\* entries are what the claim makes of the children `nodes`: one entry per
\* labelled navPoint, in order, titled by the label, its href the resolved
\* src when the navPoint has one, its children agreeing with the nested
\* navPoints
NcxAgrees(entries, nodes, base) ==
    LET pts == LabelledPoints(nodes)
    IN  /\ Len(entries) = Len(pts)
        /\ \A k \in 1..Len(pts) :
              /\ entries[k].Title = PointLabel(pts[k])
              /\ PointSrc(pts[k]) # None =>
                    entries[k].Href = Resolved(base, TrimSpace(PointSrc(pts[k])[1]))
              /\ NcxAgrees(entries[k].Children, pts[k].XmlNodes, base)

\* the <navMap> element of the NCX document as Some(element), or None
DocNavMap(doc) ==
    LET at == {i \in 1..Len(doc.XmlNodes) : doc.XmlNodes[i].Local = str_navMap}
    IN  IF at = {} THEN None ELSE Some(doc.XmlNodes[Min(at)])

\* C26: NCX ingestion fails when no navMap element exists; otherwise it
\* returns one entry per navPoint child of navMap, in document order, whose
\* navLabel text is non-empty after trimming: title that text, href the
\* src of its content child resolved against the base directory and
\* normalized, children the same rule applied to its nested navPoints; a
\* navPoint without a non-empty label is dropped together with its nested
\* navPoints.
C26_NcxEntries ==
    ret # NoCall /\ ret.op = "parseNCX" =>
        LET navMap == DocNavMap(Doc(ret.arg.doc))
        IN  /\ ret.err # NoErr <=> navMap = None
            /\ navMap # None => NcxAgrees(ret.val, navMap[1].XmlNodes, ret.arg.base)

\* C26 witness: the scenario (label "Chapter 1", src "ch1.xhtml", directory
\* "OEBPS"), after a navPoint without label whose nested navPoint is gone
C26_Witness ==
    /\ ret # NoCall /\ ret.op = "parseNCX" /\ ret.arg.base = str_oebps
    /\ DocNavMap(Doc(ret.arg.doc)) # None
    /\ LET pts == DocNavMap(Doc(ret.arg.doc))[1].XmlNodes
       IN  /\ Len(pts) = 2
           /\ PointLabel(pts[1]) = << >>
           /\ LabelledPoints(pts[1].XmlNodes) # << >>
    /\ ret.val = <<TocEntry(str_chapter1, str_oebps \o <<"/">> \o str_ch1, << >>)>>

\* an <li>: its <a> (when there is one) and its nested list
Li(a, nested) ==
    Elem(str_li, << >>,
         (IF a = None THEN << >> ELSE <<a[1]>>)
         \o (IF nested = << >> THEN << >> ELSE <<Elem(str_ol, << >>, nested)>>))

\* <a href=...>text</a>
Link(href, text) == TextElem(str_a, <<Attr(str_href, href)>>, text)

\* children of the <ol>: a linked item, an item whose <a> has no href, an
\* item whose <a> is blank around a nested item, an item with a roundabout
\* href around a nested item, an item without <a>, an element that is no
\* <li>
ListItems ==
    { Li(Some(Link(p_aName, sA)), << >>),
      Li(Some(TextElem(str_a, << >>, sB)), << >>),
      Li(Some(Link(p_bName, <<" ">>)), <<Li(Some(Link(p_bName, <<"C">>)), << >>)>>),
      Li(Some(Link(<<"s", "/", ".", ".", "/">> \o p_aName, sA)),
         <<Li(Some(Link(p_bName, <<"C">>)), << >>)>>),
      Li(None, <<Li(Some(Link(p_bName, <<"C">>)), << >>)>>),
      Elem(str_div, << >>, <<Link(p_aName, sA)>>) }

\* a page
Page(kids) == Elem(str_html, << >>, <<Elem(str_body, << >>, kids)>>)

\* the list of another <nav>
OtherList == Elem(str_ol, << >>, <<Li(Some(Link(p_bName, <<"Z">>)), << >>)>>)

\* pages around the list lis: the toc nav alone; a landmarks nav before the
\* toc nav; the list inside a <div> of the toc nav, before another list
NavPages(lis) ==
    { Page(<<Elem(str_nav, <<Attr(str_type, str_toc)>>, <<Elem(str_ol, << >>, lis)>>)>>),
      Page(<<Elem(str_nav, <<Attr(str_type, <<"l", "m">>)>>, <<OtherList>>),
             Elem(str_nav, <<Attr(str_epubType, <<"x", " ">> \o str_toc)>>,
                  <<Elem(str_ol, << >>, lis)>>)>>),
      Page(<<Elem(str_nav, <<Attr(str_type, str_toc)>>,
                  <<Elem(str_div, << >>, <<Elem(str_ol, << >>, lis)>>), OtherList>>)>>) }

\* Navigation Documents: without <nav>, with a <nav> of another type only,
\* with a toc <nav> without list, and the pages around each short list
NavDocs ==
    { Page(<<OtherList>>),
      Page(<<Elem(str_nav, <<Attr(str_type, <<"l", "m">>)>>, <<OtherList>>)>>),
      Page(<<Elem(str_nav, <<Attr(str_type, str_toc)>>, <<Elem(str_div, << >>, << >>)>>)>>) }
    \cup UNION {NavPages(lis) : lis \in SeqsUpTo(ListItems, MaxPoints)}

InitNav ==
    /\ streams = NoStreams
    /\ archive \in {TocArchive(p_ncxName, d) : d \in NcxDocs}
                   \cup {TocArchive(p_navName, d) : d \in NavDocs}
    /\ book = NewBook
    /\ ret = NoCall
    /\ pc = "done"
    /\ locals = NoLocals

NextNav ==
    \/ CallParseNCX
    \/ CallParseNavXML
    \/ StoreTOC
    \/ CallFindByHref
    \/ TakeResult

SpecNav == InitNav /\ [][NextNav]_vars

RECURSIVE Descendants(_)
\* element n and the elements below it, in document order
Descendants(n) == <<n>> \o Flat([i \in 1..Len(n.XmlNodes) |-> Descendants(n.XmlNodes[i])])

\* the first element of sequence s that satisfies Test, or None
FirstOf(s, Test(_)) ==
    LET at == {i \in 1..Len(s) : Test(s[i])}
    IN  IF at = {} THEN None ELSE Some(s[Min(at)])

\* n is a <nav> with a type or epub:type attribute that contains "toc"
IsTocNav(n) ==
    /\ n.Local = str_nav
    /\ \E i \in 1..Len(n.Attrs) :
          n.Attrs[i].Local \in {str_type, str_epubType} /\ Contains(n.Attrs[i].Value, str_toc)

IsOl(n) == n.Local = str_ol

\* the first <ol> below the first toc <nav> of the document, or None
DocTocList(doc) ==
    LET nav == FirstOf(Descendants(doc), IsTocNav)
    IN  IF nav = None THEN None ELSE FirstOf(Descendants(nav[1]), IsOl)

\* the <a> child of li as Some(element), or None
LiLink(li) ==
    LET as == {j \in 1..Len(li.XmlNodes) : li.XmlNodes[j].Local = str_a}
    IN  IF as = {} THEN None ELSE Some(li.XmlNodes[Max(as)])

\* the trimmed text of the <a> child of li, empty without one
LiTitle(li) == IF LiLink(li) = None THEN << >> ELSE DocText(LiLink(li)[1])

\* the children of the nested <ol> of li, none without one
LiNested(li) ==
    LET ols == {j \in 1..Len(li.XmlNodes) : li.XmlNodes[j].Local = str_ol}
    IN  IF ols = {} THEN << >> ELSE li.XmlNodes[Max(ols)].XmlNodes

\* the <li> children of nodes that have a title, in document order
TitledItems(nodes) ==
    Pick(nodes, {i \in 1..Len(nodes) :
                    nodes[i].Local = str_li /\ LiTitle(nodes[i]) # << >>})

RECURSIVE NavAgrees(_, _, _)
\* entries are what the claim makes of the children `nodes` of an <ol>: one
\* entry per titled <li>, in order, titled by the text of its <a>, its href
\* the resolved href of the <a> when it has one, its children agreeing
\* with the nested <ol>
NavAgrees(entries, nodes, base) ==
    LET lis == TitledItems(nodes)
    IN  /\ Len(entries) = Len(lis)
        /\ \A k \in 1..Len(lis) :
              /\ entries[k].Title = LiTitle(lis[k])
              /\ DocAttr(LiLink(lis[k])[1], str_href) # None =>
                    entries[k].Href = Resolved(base, DocAttr(LiLink(lis[k])[1], str_href)[1])
              /\ NavAgrees(entries[k].Children, LiNested(lis[k]), base)

\* C25: Navigation Document ingestion fails when no nav element with a
\* type/epub:type attribute containing "toc" exists, or when that element
\* has no ol descendant; otherwise it returns, for the first such ol, one
\* entry per li child in document order that has an a child with non-empty
\* trimmed text: title that text, href the resolved href of the a, children
\* the same rule applied to the nested ol of the li; an li without title is
\* dropped without error, and the entries nested beneath it appear nowhere.
C25_NavEntries ==
    ret # NoCall /\ ret.op = "parseNavXML" =>
        LET ol == DocTocList(Doc(ret.arg.doc))
        IN  /\ ret.err # NoErr <=> ol = None
            /\ ol # None => NavAgrees(ret.val, ol[1].XmlNodes, ret.arg.base)

\* C25 witness: a list of an untitled li around a nested titled li, then a
\* linked li; the result is the one entry of the linked li
C25_Witness ==
    /\ ret # NoCall /\ ret.op = "parseNavXML" /\ ret.arg.base = <<"O">>
    /\ LET ol == DocTocList(Doc(ret.arg.doc))
       IN  /\ ol # None
           /\ Len(ol[1].XmlNodes) = 2
           /\ ol[1].XmlNodes[1].Local = str_li
           /\ LiTitle(ol[1].XmlNodes[1]) = << >>
           /\ TitledItems(LiNested(ol[1].XmlNodes[1])) # << >>
    /\ ret.val = <<TocEntry(sA, <<"O", "/">> \o p_aName, << >>)>>

RECURSIVE NcxNoTarget(_, _)
\* of the entries parsed from the navPoints `nodes`, at every depth, those
\* whose navPoint has no content src
NcxNoTarget(entries, nodes) ==
    LET pts == LabelledPoints(nodes)
    IN  UNION { (IF PointSrc(pts[k]) = None THEN {entries[k]} ELSE {})
                \cup NcxNoTarget(entries[k].Children, pts[k].XmlNodes) :
                k \in 1..Min({Len(entries), Len(pts)}) }

RECURSIVE NavNoTarget(_, _)
\* of the entries parsed from the list children `nodes`, at every depth,
\* those whose <a> has no href
NavNoTarget(entries, nodes) ==
    LET lis == TitledItems(nodes)
    IN  UNION { (IF DocAttr(LiLink(lis[k])[1], str_href) = None THEN {entries[k]} ELSE {})
                \cup NavNoTarget(entries[k].Children, LiNested(lis[k])) :
                k \in 1..Min({Len(entries), Len(lis)}) }

\* the entries without link target among `entries`, parsed from the TOC
\* document of the archive
NoTarget(entries) ==
    IF p_ncxName \in DOMAIN archive.files
    THEN IF DocNavMap(Doc(p_ncxName)) = None THEN {}
         ELSE NcxNoTarget(entries, DocNavMap(Doc(p_ncxName))[1].XmlNodes)
    ELSE IF DocTocList(Doc(p_navName)) = None THEN {}
         ELSE NavNoTarget(entries, DocTocList(Doc(p_navName))[1].XmlNodes)

\* C29: a TOC entry without link target in the source document (a navPoint
\* without content src, an li whose a has no href, the synthetic root) has
\* an empty href in the parsed tree, and FindByHref returns no such entry
\* for any href, the empty one and "." included.
C29_NoTargetNeverFound ==
    /\ ret # NoCall /\ ret.op \in {"parseNCX", "parseNavXML"} /\ ret.err = NoErr =>
          \A e \in NoTarget(ret.val) : e.Href = << >>
    /\ book.TOC # None => book.TOC[1].Href = << >>
    /\ ret # NoCall /\ ret.op = "FindByHref" /\ ret.val # None =>
          /\ ret.val[1] # book.TOC[1]
          /\ ret.val[1] \notin NoTarget(book.TOC[1].Children)

\* the half of C29 that the Navigation Document parser keeps
C29_NavSide ==
    p_navName \in DOMAIN archive.files => C29_NoTargetNeverFound

-----------------------------------------------------------------------------
(* SpecTocPath: ReadBook on archives whose manifest spells the href of the *)
(* TOC document in several ways, with a TOC document at the resolved path  *)
(* and another one right beside the package document                       *)

\* the ways the manifest spells the href of the TOC document named name
TocHrefs(name) ==
    { name, <<".", "/">> \o name, <<"s", "/">> \o name, <<".", ".", "/">> \o name }

\* the archive entry an href of the package document in dir denotes
EntryOf(dir, href) == Clean(InDir(dir, href))

\* package document in dir, TOC document declared at tocHref; when real, a
\* TOC document linking to a.x at the entry tocHref denotes; when beside,
\* a TOC document linking to b.x at the bare name in dir
TocPathArchive(dir, tocDecl, tocHref, real, beside) ==
    LET P == EntryOf(dir, tocHref)
        B == InDir(dir, TocName(tocDecl))
        pairs == { <<str_containerPath, GoodContainer(dir)>>,
                   <<InDir(dir, p_opfName), XmlFile(TocPackage(tocDecl, tocHref))>>,
                   <<InDir(dir, p_aName), ChapterFile(TRUE, TRUE)>> }
                 \cup (IF real THEN {<<P, XmlFile(TocDocOf(tocDecl, p_aName))>>} ELSE {})
                 \cup (IF beside /\ B # P
                       THEN {<<B, XmlFile(TocDocOf(tocDecl, p_bName))>>} ELSE {})
    IN  [opens |-> TRUE,
         files |-> [p \in {x[1] : x \in pairs} |-> (CHOOSE x \in pairs : x[1] = p)[2]]]

TocPathArchives ==
    { TocPathArchive(dir, tocDecl, tocHref, real, beside) :
        dir \in PkgDirs, tocDecl \in TocDecls \ {"none"},
        tocHref \in TocHrefs(p_ncxName) \cup TocHrefs(p_navName),
        real \in BOOLEAN, beside \in BOOLEAN }

InitTocPath ==
    /\ streams = NoStreams
    /\ archive \in TocPathArchives
    /\ pc = "open"
    /\ locals = NoLocals
    /\ book = NewBook
    /\ ret = NoCall

SpecTocPath == InitTocPath /\ [][NextRead]_vars

\* what FindTOCFile returns for the package document that was read
FoundTOC == FindTOCFile(book.Opf[1], locals.opfPath)

\* C27: whenever FindTOCFile returns a format other than unknown with the
\* resolved path P, ReadBook reads the TOC from the archive entry named
\* exactly P, for every package directory and every manifest href (an href
\* that leaves the package directory and a package document at the archive
\* root included): the TOC of the book is the one parsed from entry P, and
\* the TOC is reported missing only when the archive has no entry P.
C27_TocReadFromResolvedPath ==
    book.Opf # None /\ pc \in {"spine", "chapters", "done"}
    /\ HasTOC(FoundTOC.tocType, FoundTOC.tocFile) =>
        /\ ret = NoCall \/ ret.err = NoErr =>
              /\ FoundTOC.tocFile \in DOMAIN archive.files
              /\ book.TOC = Some(TocRoot(ParseTOCEntry(FoundTOC.tocType,
                                                       archive.files[FoundTOC.tocFile],
                                                       locals.opfDir).entries))
        /\ ret # NoCall /\ ret.err # NoErr => FoundTOC.tocFile \notin DOMAIN archive.files

\* the same, for the manifest hrefs that stay inside the package directory
C27_InsidePackageDir ==
    (\E name \in {p_ncxName, p_navName} :
        \E href \in TocHrefs(name) \ {<<".", ".", "/">> \o name} :
           InDir(locals.opfDir, p_opfName) \in DOMAIN archive.files
           /\ \E i \in 1..Len(Doc(InDir(locals.opfDir, p_opfName)).XmlNodes[2].XmlNodes) :
                 DocAttr(Doc(InDir(locals.opfDir, p_opfName)).XmlNodes[2].XmlNodes[i],
                         str_href) = Some(href))
    => C27_TocReadFromResolvedPath

-----------------------------------------------------------------------------
(* SpecLookups: the three lookups by id of a manifest, side by side        *)

\* mf.ItemByID(id): the first item whose id attribute equals id, letter
\* case apart
ItemByID(mf, id) ==
    IF mf = None THEN [item |-> EmptyXmlNode(<< >>, << >>), ok |-> FALSE]
    ELSE LET items == mf[1].Items
             hit == {i \in 1..Len(items) : EqualFold(MapGet(items[i].Attrs, str_id), id)}
         IN  IF hit = {} THEN [item |-> EmptyXmlNode(<< >>, << >>), ok |-> FALSE]
             ELSE [item |-> items[Min(hit)], ok |-> TRUE]

\* the ids callers look up
LookupIds == { <<"a">>, <<"A">>, <<" ", "a">>, <<"t">>, <<"z">>, << >> }

\* the attributes of the <spine>: none, toc naming item t, toc naming item a
LookupSpineAttrs == { << >>, <<Attr(str_toc, <<"t">>)>>, <<Attr(str_toc, <<"a">>)>> }

InitLookups ==
    /\ streams = NoStreams
    /\ book \in {ManifestBook(items, sa) :
                    items \in SeqsUpTo(ManifestItems, MaxItems), sa \in LookupSpineAttrs}
    /\ ret = NoCall
    /\ archive = NoArchive
    /\ pc = "done"
    /\ locals = NoLocals

\* b.Opf.Manifest.ItemByID(id)
CallItemByID ==
    /\ ret = NoCall
    /\ \E id \in LookupIds :
          ret' = Call("ItemByID", id, ItemByID(book.Opf[1].Manifest, id), NoErr)
    /\ UNCHANGED <<archive, pc, locals, book, streams>>

NextLookups == CallItemByID \/ CallFindTOCFile \/ CallHrefLookup \/ TakeResult

SpecLookups == InitLookups /\ [][NextLookups]_vars

\* the table HrefLookup gives for the manifest of the book, read from opfPath
Table(opfPath) == HrefLookup(book.Opf[1].Manifest, opfPath)

\* C28: all lookups by id agree on the item an id denotes: for every
\* manifest (repeated ids, ids that differ in letter case or surrounding
\* whitespace included) and every id present in HrefLookup, ItemByID(id)
\* returns the item whose href resolves to HrefLookup[id], and the item
\* FindTOCFile selects for a spine toc attribute equal to id resolves to
\* the same href.
C28_LookupsAgree ==
    /\ ret # NoCall /\ ret.op = "ItemByID" =>
          \A opfPath \in OpfPaths :
             ret.arg \in DOMAIN Table(opfPath) =>
                /\ ret.val.ok
                /\ FromPkgDir(opfPath, TrimSpace(MapGet(ret.val.item.Attrs, str_href)))
                      = Table(opfPath)[ret.arg]
    /\ ret # NoCall /\ ret.op = "FindTOCFile" /\ TocRules(book, ret.arg)[1] = 2
       /\ DocField(DocSpine(book), str_toc) \in DOMAIN Table(ret.arg) =>
             ret.val.tocFile = Table(ret.arg)[DocField(DocSpine(book), str_toc)]

\* the same on manifests whose ids are all different, letter case and
\* surrounding whitespace apart, and written without padding
C28_DistinctIds ==
    (LET items == DocItems(book)
     IN  \A i, j \in 1..Len(items) :
            /\ DocField(items[i], str_id) = TrimSpace(DocField(items[i], str_id))
            /\ i # j => ~EqualFold(TrimSpace(DocField(items[i], str_id)),
                                   TrimSpace(DocField(items[j], str_id))))
    => C28_LookupsAgree

-----------------------------------------------------------------------------
(* SpecClose: ReadBook on sound archives some of whose streams fail to     *)
(* close                                                                   *)

\* sound archives: package document in O, chapter a, a Navigation Document
\* or an NCX beside the package document
SoundArchives == { TocDirArchive(<<"O">>, tocDecl, << >>, p_aName) : tocDecl \in {"nav", "media"} }

\* archive a, where Close() fails on the streams named in failing
WithCloseFailures(a, failing) ==
    [opens |-> a.opens, files |-> a.files, closeFails |-> failing]

InitClose ==
    /\ streams = NoStreams
    /\ archive \in { WithCloseFailures(a, failing) :
                        a \in SoundArchives,
                        failing \in SUBSET ({zr} \cup UNION {DOMAIN b.files : b \in SoundArchives}) }
    /\ pc = "open"
    /\ locals = NoLocals
    /\ book = NewBook
    /\ ret = NoCall

SpecClose == InitClose /\ [][NextRead]_vars

\* C30: if closing an opened stream fails (the entry stream in getContent,
\* the chapter stream in ParseChapter, the archive in ReadBook), the
\* enclosing operation returns an error that includes the close failure,
\* also when reading and parsing succeeded; no close failure is discarded.
C30_CloseFailureReported ==
    pc = "done" /\ ret # NoCall /\ ret.op = "ReadBook" /\ streams.failed # {} =>
        ret.err # NoErr

\* what ReadBook does instead: it returns the book without error on every
\* sound archive, whichever closes fail
C30_CloseFailureDiscarded ==
    pc = "done" /\ ret # NoCall /\ ret.op = "ReadBook" =>
        ret.err = NoErr /\ ret.val # None

=============================================================================
